---- MODULE Spec2Model ----
(***************************************************************************)
(* Terminal session core of ZenTerm: SessionManager                        *)
(* (src-tauri/src/terminal/session.rs) on top of PtyManager                *)
(* (src-tauri/src/terminal/pty.rs).                                        *)
(*                                                                         *)
(* Spec is the sequential behaviour: the Tauri commands of                 *)
(* src-tauri/src/lib.rs call the manager behind one Mutex<SessionManager>, *)
(* so every call runs to completion before the next one starts and each    *)
(* action below is one whole call.                                         *)
(***************************************************************************)
EXTENDS Integers, Sequences, FiniteSets, TLC

(***************************************************************************)
(* Bounds and input sets                                                   *)
(***************************************************************************)
\* number of Uuid::new_v4() values handed out in one behaviour
MaxUuid == 3

\* `name` arguments of create_session
Names == {"shell1"}

\* $HOME as seen by std::env::var("HOME"): <<>> is "not set"
HomeEnv == {<<"/home/u">>}

\* command texts, as sequences of characters
Commands == {<<"a">>, <<"b">>}

\* geometries a caller may ask for
RowArgs == {24, 30}
ColArgs == {80}

\* SystemTime::now() in milliseconds, as read by write_command
Times == {7}

\* the line terminator writeln! appends
NL == "\n"

\* the capacity asked of broadcast::channel; 3 stands for the 1000 of
\* PtyManager::new and, like it, is not a power of two
ChannelCapacity == 3

\* the ids of the PTY sessions opened on the PtyManager itself: two
\* sessions, whose reader threads interleave
StreamIds == {1, 2}

\* items (lines or read errors) the readers read in one behaviour
MaxLines == 5

\* command texts written while the output stream is watched
StreamCommands == {<<"a">>}

\* holders of a broadcast::Receiver
Subscribers == {"r1", "r2"}

\* caller threads that share one SessionManager
Threads == {"t1", "t2"}

(***************************************************************************)
(* Option<T>, HashMap<K, V>                                                *)
(***************************************************************************)
None == <<>>
Some(x) == <<x>>

EmptyMap == [k \in {} |-> {}]
Insert(m, k, v) == [j \in (DOMAIN m) \cup {k} |-> IF j = k THEN v ELSE m[j]]
Remove(m, k) == [j \in (DOMAIN m) \ {k} |-> m[j]]

Range(s) == {s[i] : i \in DOMAIN s}

(***************************************************************************)
(* State                                                                   *)
(***************************************************************************)
VARIABLES
    sessions,        \* SessionManager.sessions : id -> TerminalSession
    active_session,  \* SessionManager.active_session : Option<id>
    pty_sessions,    \* PtyManager.sessions : id -> PtySession
    uuid,            \* number of Uuid::new_v4() values handed out so far
    ret,             \* the last call: operation, arguments and result
    created,         \* history: ids returned by create_session, in order
    closed,          \* history: ids on which close_session has returned
    onlyCreates,     \* history: every call so far was a successful create_session
    before,          \* history: what the last call found when it started
    readers,         \* the reader threads spawned by PtyManager::create_session
    pipe,            \* per PTY: how much the reader has read of the shell's output
    channel,         \* the broadcast channel behind PtyManager.output_sender
    receivers,       \* the broadcast::Receiver handles given out
    commanded,       \* history: per id a command was written to in full, the
                     \* items its reader had read when the first one was
    threads,         \* caller threads inside a SessionManager call
    mutex,           \* holder of the SessionManager.sessions lock
    handlers,        \* EventBus.handlers : subscription id -> HandlerEntry
    catch_panics,    \* EventBus.catch_panics
    SUBSCRIPTION_COUNTER,  \* the static counter behind Subscription::new
    subscriptions,   \* the Subscription values callers hold
    bus_ret,         \* the last call on the bus: operation, arguments, result
    unsubscribed,    \* history: ids an unsubscribe call has removed
    is_open,         \* Wizard.is_open
    current_step,    \* Wizard.current_step
    completed_steps, \* Wizard.completed_steps
    wizard_ret,      \* the last call on the wizard: operation, the step it
                     \* was called at, result
    pty_lock         \* holder of the PtyManager.sessions lock

\* what the calls of the session managers read and write
managerVars == <<sessions, active_session, pty_sessions, uuid, ret,
                 created, closed, onlyCreates, before>>

\* the far side of the PTYs and the output stream
streamVars == <<pipe, channel, receivers, commanded>>

\* callers running inside the SessionManager at the same time
concVars == <<threads, mutex>>

\* what the calls on the EventBus read and write
busVars == <<handlers, catch_panics, SUBSCRIPTION_COUNTER, subscriptions,
             bus_ret, unsubscribed>>

\* the fields of the Wizard and the record of the last call on it
wizardVars == <<is_open, current_step, completed_steps, wizard_ret>>

vars == <<managerVars, readers, streamVars, concVars, busVars, wizardVars, pty_lock>>

\* ids a caller can name: the ids create_session has returned so far and 0,
\* a string that is never a generated uuid
IdArgs == {0} \cup {created[i] : i \in DOMAIN created}

(***************************************************************************)
(* session.rs: TerminalSession; pty.rs: PtySession, CommandBlock           *)
(***************************************************************************)
TerminalSession(id, name, home) ==
    [id |-> id,
     name |-> name,
     active |-> TRUE,
     current_directory |-> IF home = None THEN "/" ELSE home[1],
     commands |-> <<>>]

PtySession(id) ==
    [id |-> id,
     pty |-> [rows |-> 24, cols |-> 80],
     writer |-> <<>>,
     current_command |-> None]

CommandBlock(command_id, session_id, command, timestamp) ==
    [id |-> command_id,
     session_id |-> session_id,
     command |-> command,
     output |-> <<>>,
     exit_code |-> None,
     start_time |-> timestamp,
     end_time |-> None,
     status |-> "Running"]

\* SessionManager::list_sessions: the values of the map, in no fixed order
list_sessions == {sessions[i] : i \in DOMAIN sessions}

\* SessionManager::get_active_session
get_active_session == active_session

\* SessionManager::get_session
get_session(id) == IF id \in DOMAIN sessions THEN Some(sessions[id]) ELSE None

Ok(v) == [ok |-> TRUE, err |-> "", value |-> v]
Err(e) == [ok |-> FALSE, err |-> e, value |-> None]

Call(op, args, result) == [op |-> op, args |-> args, result |-> result]

Before(id) ==
    [registered |-> id \in DOMAIN sessions,
     active |-> active_session]

(***************************************************************************)
(* tokio::sync::broadcast as PtyManager uses it                            *)
(***************************************************************************)
RECURSIVE next_power_of_two(_)
next_power_of_two(n) == IF n <= 1 THEN 1 ELSE 2 * next_power_of_two((n + 1) \div 2)

\* a channel of exactly `capacity` slots
broadcast_channel_exact(capacity) ==
    [slots |-> capacity,
     sent |-> <<>>,
     rx_cnt |-> 0,
     discarded |-> 0]

\* broadcast::channel(capacity) with the receiver half dropped at once
\* (let (output_sender, _) = ...): the slot count is the capacity rounded up
\* to a power of two; `sent` is every value a send stored, oldest first, of
\* which the last `slots` at most are still held; no receiver is left.
broadcast_channel(capacity) ==
    [slots |-> next_power_of_two(capacity),
     sent |-> <<>>,
     rx_cnt |-> 0,
     discarded |-> 0]

\* a caller thread that is in no call
Idle == [pc |-> "idle"]

(***************************************************************************)
(* Init: SessionManager::new, PtyManager::new                              *)
(***************************************************************************)
Init ==
    /\ sessions = EmptyMap
    /\ active_session = None
    /\ pty_sessions = EmptyMap
    /\ uuid = 0
    /\ ret = Call("new", <<>>, Ok(None))
    /\ created = <<>>
    /\ closed = {}
    /\ onlyCreates = TRUE
    /\ before = [registered |-> FALSE, active |-> None]
    /\ readers = EmptyMap
    /\ pipe = EmptyMap
    /\ channel = broadcast_channel(ChannelCapacity)
    /\ receivers = EmptyMap
    /\ commanded = EmptyMap
    /\ threads = [t \in Threads |-> Idle]
    /\ mutex = None
    /\ handlers = EmptyMap
    /\ catch_panics = TRUE
    /\ SUBSCRIPTION_COUNTER = 0
    /\ subscriptions = {}
    /\ bus_ret = Call("new", <<>>, None)
    /\ unsubscribed = {}
    /\ is_open = FALSE
    /\ current_step = "Welcome"
    /\ completed_steps = <<>>
    /\ wizard_ret = Call("new", <<>>, None)
    /\ pty_lock = None

(***************************************************************************)
(* PtyManager                                                              *)
(***************************************************************************)
\* the steps of PtyManager::create_session that end the call with `?`
SpawnFailures == {"openpty", "spawn_command", "try_clone_reader", "take_writer"}

\* PtyManager::create_session: the registry after the call that drew
\* session_id, where `failure` is None or the failing step
PtyManager_create_session(session_id, failure) ==
    IF failure # None
    THEN pty_sessions
    ELSE Insert(pty_sessions, session_id, PtySession(session_id))

\* the thread::spawn of PtyManager::create_session, which comes after the
\* four fallible steps: the reader starts at the head of its lines() loop
Reader == [pc |-> "read", output |-> None]

\* a create_session that starts the reader as soon as it has cloned it,
\* before take_writer
spawn_reader_early(session_id, failure) ==
    IF failure \in {None, Some("take_writer")}
    THEN Insert(readers, session_id, Reader)
    ELSE readers

spawn_reader(session_id, failure) ==
    IF failure # None THEN readers ELSE Insert(readers, session_id, Reader)

\* the PTY pair of openpty with the shell on its slave side, as the reader
\* sees it: no item read from it yet, the end of the stream not reached;
\* and no Err item either; and as the writer sees it: the shell takes what
\* is written to it
Pty == [produced |-> 0, alive |-> TRUE, draining |-> TRUE, failed |-> FALSE]

openpty(session_id, failure) ==
    IF failure # None THEN pipe ELSE Insert(pipe, session_id, Pty)

\* write_command that drops a session whose PTY refused the write
PtyManager_write_command_drop_broken(session_id, command, command_id, timestamp, written) ==
    IF session_id \in DOMAIN pty_sessions
    THEN IF written < Len(command) + 1
         THEN Remove(pty_sessions, session_id)
         ELSE LET session == pty_sessions[session_id]
                  line == command \o <<NL>>
              IN  [pty_sessions EXCEPT ![session_id] =
                     [session EXCEPT
                        !.current_command =
                            Some(CommandBlock(command_id, session_id, command, timestamp)),
                        !.writer = session.writer \o line]]
    ELSE pty_sessions

\* write_command with write! in place of writeln!: no line terminator
PtyManager_write_command_no_newline(session_id, command, command_id, timestamp, written) ==
    IF session_id \in DOMAIN pty_sessions
    THEN LET session == pty_sessions[session_id]
         IN  [pty_sessions EXCEPT ![session_id] =
                [session EXCEPT
                   !.current_command =
                       Some(CommandBlock(command_id, session_id, command, timestamp)),
                   !.writer = session.writer \o
                                 SubSeq(command, 1, IF written > Len(command)
                                                    THEN Len(command) ELSE written)]]
    ELSE pty_sessions

\* write_command that makes the block current only when writeln! has
\* returned Ok
PtyManager_write_command_block_after(session_id, command, command_id, timestamp, written) ==
    IF session_id \in DOMAIN pty_sessions
    THEN LET session == pty_sessions[session_id]
             line == command \o <<NL>>
         IN  [pty_sessions EXCEPT ![session_id] =
                [session EXCEPT
                   !.current_command =
                       IF written < Len(line) THEN session.current_command
                       ELSE Some(CommandBlock(command_id, session_id, command, timestamp)),
                   !.writer = session.writer \o SubSeq(line, 1, written)]]
    ELSE pty_sessions

\* PtyManager::write_command: registry after the call. `written` is the
\* number of characters of "command\n" the writer accepted before writeln!
\* returned (all of them when the write succeeds).
PtyManager_write_command(session_id, command, command_id, timestamp, written) ==
    IF session_id \in DOMAIN pty_sessions
    THEN LET session == pty_sessions[session_id]
             line == command \o <<NL>>
         IN  [pty_sessions EXCEPT ![session_id] =
                [session EXCEPT
                   !.current_command =
                       Some(CommandBlock(command_id, session_id, command, timestamp)),
                   !.writer = session.writer \o SubSeq(line, 1, written)]]
    ELSE pty_sessions

\* a resize_session that puts the PTY back to 24 x 80 when it already has
\* the geometry asked for
PtyManager_resize_session_toggling(session_id, rows, cols, applied) ==
    IF session_id \in DOMAIN pty_sessions /\ applied
    THEN [pty_sessions EXCEPT ![session_id].pty =
             IF @ = [rows |-> rows, cols |-> cols]
             THEN [rows |-> 24, cols |-> 80]
             ELSE [rows |-> rows, cols |-> cols]]
    ELSE pty_sessions

\* PtyManager::resize_session: registry after the call; `applied` is whether
\* the OS accepted the new geometry
PtyManager_resize_session(session_id, rows, cols, applied) ==
    IF session_id \in DOMAIN pty_sessions /\ applied
    THEN [pty_sessions EXCEPT ![session_id].pty = [rows |-> rows, cols |-> cols]]
    ELSE pty_sessions

\* PtyManager::resize_session: the result of the call
PtyManager_resize_result(session_id, applied) ==
    IF session_id \in DOMAIN pty_sessions /\ ~applied
    THEN Err("resize")
    ELSE Ok(None)

\* PtyManager::close_session
PtyManager_close_session(session_id) == Remove(pty_sessions, session_id)

(***************************************************************************)
(* SessionManager                                                          *)
(***************************************************************************)
create_session(name, home, failure) ==
    /\ uuid < MaxUuid
    /\ LET session_id == uuid + 1
       IN  /\ uuid' = uuid + 1
           /\ pty_sessions' = PtyManager_create_session(session_id, failure)
           /\ readers' = spawn_reader(session_id, failure)
           /\ pipe' = openpty(session_id, failure)
           /\ before' = Before(session_id)
           /\ IF failure # None
              THEN /\ ret' = Call("create_session", <<name>>, Err(failure[1]))
                   /\ onlyCreates' = FALSE
                   /\ UNCHANGED <<sessions, active_session, created>>
              ELSE /\ sessions' = Insert(sessions, session_id,
                                         TerminalSession(session_id, name, home))
                   /\ active_session' = Some(session_id)
                   /\ ret' = Call("create_session", <<name>>, Ok(Some(session_id)))
                   /\ created' = Append(created, session_id)
                   /\ UNCHANGED onlyCreates
    /\ UNCHANGED <<busVars, wizardVars, pty_lock>>
    /\ UNCHANGED <<closed, channel, receivers, commanded, concVars>>

\* set_active_session that stores the pointer before it looks the id up
set_active_session_unchecked(session_id) ==
    /\ before' = Before(session_id)
    /\ active_session' = Some(session_id)
    /\ ret' = Call("set_active_session", <<session_id>>,
                   IF session_id \in DOMAIN sessions
                   THEN Ok(None) ELSE Err("Session not found"))
    /\ onlyCreates' = FALSE
    /\ UNCHANGED <<sessions, pty_sessions, uuid, created, closed>>
    /\ UNCHANGED <<busVars, wizardVars, pty_lock>>
    /\ UNCHANGED <<readers, streamVars, concVars>>

set_active_session(session_id) ==
    /\ before' = Before(session_id)
    /\ IF session_id \in DOMAIN sessions
       THEN /\ active_session' = Some(session_id)
            /\ ret' = Call("set_active_session", <<session_id>>, Ok(None))
       ELSE /\ ret' = Call("set_active_session", <<session_id>>,
                           Err("Session not found"))
            /\ UNCHANGED active_session
    /\ onlyCreates' = FALSE
    /\ UNCHANGED <<sessions, pty_sessions, uuid, created, closed>>
    /\ UNCHANGED <<busVars, wizardVars, pty_lock>>
    /\ UNCHANGED <<readers, streamVars, concVars>>

\* write_command that, like resize_session, reports success for an absent id
PtyManager_write_result_lenient(session_id, command, command_id, written) ==
    IF session_id \notin DOMAIN pty_sessions THEN Ok(None)
    ELSE IF written < Len(command) + 1 THEN Err("write")
    ELSE Ok(Some(command_id))

\* PtyManager::write_command: the result of the call that drew command_id
PtyManager_write_result(session_id, command, command_id, written) ==
    IF session_id \notin DOMAIN pty_sessions THEN Err("Session not found")
    ELSE IF written < Len(command) + 1 THEN Err("write")
    ELSE Ok(Some(command_id))

\* execute_command that also appends the new block to the commands of the
\* Session
execute_command_recording(session_id, command, timestamp, written) ==
    /\ before' = Before(session_id)
    /\ IF session_id \in DOMAIN pty_sessions
       THEN /\ uuid < MaxUuid
            /\ uuid' = uuid + 1
       ELSE UNCHANGED uuid
    /\ pty_sessions' =
          PtyManager_write_command(session_id, command, uuid + 1, timestamp, written)
    /\ sessions' =
          IF session_id \in DOMAIN pty_sessions \cap DOMAIN sessions
          THEN [sessions EXCEPT ![session_id].commands =
                   Append(@, CommandBlock(uuid + 1, session_id, command, timestamp))]
          ELSE sessions
    /\ ret' = Call("execute_command", <<session_id, command>>,
                   PtyManager_write_result(session_id, command, uuid + 1, written))
    /\ onlyCreates' = FALSE
    /\ UNCHANGED <<active_session, created, closed>>
    /\ UNCHANGED <<busVars, wizardVars, pty_lock>>
    /\ UNCHANGED <<readers, streamVars, concVars>>

execute_command(session_id, command, timestamp, written) ==
    /\ before' = Before(session_id)
    /\ IF session_id \in DOMAIN pty_sessions
       THEN /\ uuid < MaxUuid
            /\ uuid' = uuid + 1
       ELSE UNCHANGED uuid
    /\ pty_sessions' =
          PtyManager_write_command(session_id, command, uuid + 1, timestamp, written)
    /\ ret' = Call("execute_command", <<session_id, command>>,
                   PtyManager_write_result(session_id, command, uuid + 1, written))
    /\ onlyCreates' = FALSE
    /\ UNCHANGED <<sessions, active_session, created, closed>>
    /\ UNCHANGED <<busVars, wizardVars, pty_lock>>
    /\ UNCHANGED <<readers, streamVars, concVars>>

resize_session(session_id, rows, cols, applied) ==
    /\ before' = Before(session_id)
    /\ pty_sessions' = PtyManager_resize_session(session_id, rows, cols, applied)
    /\ ret' = Call("resize_session", <<session_id, rows, cols>>,
                   PtyManager_resize_result(session_id, applied))
    /\ onlyCreates' = FALSE
    /\ UNCHANGED <<sessions, active_session, uuid, created, closed>>
    /\ UNCHANGED <<busVars, wizardVars, pty_lock>>
    /\ UNCHANGED <<readers, streamVars, concVars>>

\* a close_session that finds no replacement for the active session
NewActive_none(remaining) == {None}

\* the replacement taken from the registry as it was before the removal
NewActive_before_removal(remaining) ==
    IF DOMAIN sessions = {} THEN {None} ELSE {Some(k) : k \in DOMAIN sessions}

\* sessions.keys().next() on the registry left after the removal: any key,
\* the iteration order of a HashMap being unspecified
NewActive(remaining) ==
    IF DOMAIN remaining = {} THEN {None} ELSE {Some(k) : k \in DOMAIN remaining}

\* close_session that rejects an id it does not know
close_session_strict(session_id) ==
    /\ before' = Before(session_id)
    /\ pty_sessions' = PtyManager_close_session(session_id)
    /\ sessions' = Remove(sessions, session_id)
    /\ IF active_session = Some(session_id)
       THEN active_session' \in NewActive(sessions')
       ELSE UNCHANGED active_session
    /\ ret' = Call("close_session", <<session_id>>,
                   IF session_id \in DOMAIN sessions
                   THEN Ok(None) ELSE Err("Session not found"))
    /\ closed' = closed \cup {session_id}
    /\ onlyCreates' = FALSE
    /\ UNCHANGED <<uuid, created>>
    /\ UNCHANGED <<busVars, wizardVars, pty_lock>>
    /\ UNCHANGED <<readers, streamVars, concVars>>

close_session(session_id) ==
    /\ before' = Before(session_id)
    /\ pty_sessions' = PtyManager_close_session(session_id)
    /\ sessions' = Remove(sessions, session_id)
    /\ IF active_session = Some(session_id)
       THEN active_session' \in NewActive(sessions')
       ELSE UNCHANGED active_session
    /\ ret' = Call("close_session", <<session_id>>, Ok(None))
    /\ closed' = closed \cup {session_id}
    /\ onlyCreates' = FALSE
    /\ UNCHANGED <<uuid, created>>
    /\ UNCHANGED <<busVars, wizardVars, pty_lock>>
    /\ UNCHANGED <<readers, streamVars, concVars>>

Next ==
    \/ \E name \in Names, home \in HomeEnv,
          failure \in {None} \cup {Some(f) : f \in SpawnFailures} :
            create_session(name, home, failure)
    \/ \E session_id \in IdArgs : set_active_session(session_id)
    \/ \E session_id \in IdArgs, command \in Commands, timestamp \in Times :
          \E written \in 0..(Len(command) + 1) :
            execute_command(session_id, command, timestamp, written)
    \/ \E session_id \in IdArgs, rows \in RowArgs, cols \in ColArgs,
          applied \in BOOLEAN :
            resize_session(session_id, rows, cols, applied)
    \/ \E session_id \in IdArgs : close_session(session_id)

Spec == Init /\ [][Next]_vars


(***************************************************************************)
(* Properties of the sequential behaviour                                  *)
(***************************************************************************)
ActiveFlagged == {s \in list_sessions : s.active}

Registered(m) == DOMAIN m

\* C1: in every reachable state at most one session of list_sessions() has
\* active == true (and none when the registry is empty).
C1_AtMostOneActiveFlag == Cardinality(ActiveFlagged) <= 1

\* C2: after n successful create_session calls and nothing else, the
\* returned ids are pairwise distinct, list_sessions() holds exactly those
\* sessions, and active is true on the last created one only.
C2_CreateSequence ==
    onlyCreates =>
        /\ \A i, j \in DOMAIN created : i # j => created[i] # created[j]
        /\ {s.id : s \in list_sessions} = Range(created)
        /\ Cardinality(list_sessions) = Len(created)
        /\ \A s \in list_sessions :
              s.active <=> (s.id = created[Len(created)])

\* C3: after a successful set_active_session(id), the session id has
\* active == true and every other registered session has active == false.
C3_SetActiveFlags ==
    (ret.op = "set_active_session" /\ ret.result.ok) =>
        \A s \in list_sessions : s.active <=> (s.id = ret.args[1])

\* C4: set_active_session on an id that is not registered returns an error
\* and leaves the registry, every active field and the active pointer as
\* they were.
C4_SetActiveUnknown ==
    [][(ret'.op = "set_active_session" /\ ret'.args[1] \notin Registered(sessions))
        => /\ ~ret'.result.ok
           /\ sessions' = sessions
           /\ get_active_session' = get_active_session
           /\ pty_sessions' = pty_sessions]_vars

C4_Witness ==
    /\ ret.op = "set_active_session"
    /\ ~ret.result.ok
    /\ ret.args[1] \in closed
    /\ active_session # None
    /\ Registered(sessions) # {}

\* C5: close_session(id) returns success whether or not id is registered,
\* leaves id absent from both registries, and neither removes nor modifies
\* any other Session or PtySession.
C5_CloseIdempotent ==
    [][ret'.op = "close_session"
        => LET id == ret'.args[1]
           IN  /\ ret'.result.ok
               /\ id \notin {s.id : s \in list_sessions'}
               /\ id \notin Registered(sessions')
               /\ id \notin Registered(pty_sessions')
               /\ \A j \in Registered(sessions) \ {id} :
                     j \in Registered(sessions') /\ sessions'[j] = sessions[j]
               /\ \A j \in Registered(pty_sessions) \ {id} :
                     j \in Registered(pty_sessions')
                     /\ pty_sessions'[j] = pty_sessions[j]]_vars

\* a second close of an id that was registered once, others still open
C5_Witness ==
    /\ ret.op = "close_session"
    /\ ret.result.ok
    /\ ~before.registered
    /\ ret.args[1] \in Range(created)
    /\ Registered(sessions) # {}

\* C6: resize_session on an id that is not registered returns a
\* SessionNotFound error and changes no manager state.
C6_ResizeUnknown ==
    [][(ret'.op = "resize_session" /\ ret'.args[1] \notin Registered(pty_sessions))
        => /\ ~ret'.result.ok
           /\ ret'.result.err = "Session not found"
           /\ UNCHANGED <<sessions, active_session, pty_sessions>>]_vars

\* C7: once close_session(id) has returned, every later execute_command,
\* set_active_session or resize_session naming id returns a not-found
\* error, id never reappears in list_sessions() and is never active again.
C7_ClosedIsTerminal ==
    /\ [](/\ closed \cap {s.id : s \in list_sessions} = {}
          /\ \A id \in closed : get_active_session # Some(id))
    /\ [][(/\ ret'.op \in {"execute_command", "set_active_session",
                           "resize_session"}
           /\ ret'.args[1] \in closed)
          => /\ ~ret'.result.ok
             /\ ret'.result.err = "Session not found"]_vars

\* C8: close_session of the active session leaves the active pointer on a
\* session still registered, or None exactly when the registry is empty;
\* close_session of any other id leaves the pointer unchanged.
C8_CloseActiveReplacement ==
    [][ret'.op = "close_session"
        => IF get_active_session = Some(ret'.args[1])
           THEN \/ /\ Registered(sessions') = {}
                   /\ get_active_session' = None
                \/ /\ Registered(sessions') # {}
                   /\ get_active_session' # None
                   /\ get_active_session'[1] \in Registered(sessions')
           ELSE get_active_session' = get_active_session]_vars

\* the active session was closed while two others were registered
C8_Witness ==
    /\ ret.op = "close_session"
    /\ before.active = Some(ret.args[1])
    /\ Cardinality(Registered(sessions)) >= 2
    /\ active_session # None

\* C9: execute_command / write_command on an id that is not in the PTY
\* registry returns SessionNotFound, writes to no PTY, creates no
\* CommandBlock and leaves every current_command unchanged.
C9_WriteUnknown ==
    [][(ret'.op = "execute_command" /\ ret'.args[1] \notin Registered(pty_sessions))
        => /\ ~ret'.result.ok
           /\ ret'.result.err = "Session not found"
           /\ UNCHANGED <<pty_sessions, uuid, sessions, active_session>>]_vars

C9_Witness ==
    /\ ret.op = "execute_command"
    /\ ~ret.result.ok
    /\ ret.result.err = "Session not found"
    /\ \E j \in Registered(pty_sessions) :
          /\ pty_sessions[j].current_command # None
          /\ pty_sessions[j].writer # <<>>

\* C10: a successful write_command(id, c) appends exactly c and one newline
\* to the PTY of id, returns a command id never handed out before, and
\* leaves current_command of id equal to the one Running block with that id,
\* session_id id, command c, no output, no exit code and no end time,
\* whatever current_command was before; no other PtySession changes.
C10_WriteSuccess ==
    [][(ret'.op = "execute_command" /\ ret'.result.ok)
        => LET id == ret'.args[1]
               c == ret'.args[2]
               cid == ret'.result.value[1]
           IN  /\ id \in Registered(pty_sessions)
               /\ Registered(pty_sessions') = Registered(pty_sessions)
               /\ pty_sessions'[id].writer = pty_sessions[id].writer \o c \o <<NL>>
               /\ cid \notin 1..uuid
               /\ \A j \in Registered(pty_sessions) :
                     pty_sessions[j].current_command # None
                         => pty_sessions[j].current_command[1].id # cid
               /\ Len(pty_sessions'[id].current_command) = 1
               /\ LET b == pty_sessions'[id].current_command[1]
                  IN  /\ b.id = cid
                      /\ b.session_id = id
                      /\ b.command = c
                      /\ b.status = "Running"
                      /\ b.output = <<>>
                      /\ b.exit_code = None
                      /\ b.end_time = None
               /\ \A j \in Registered(pty_sessions) \ {id} :
                     pty_sessions'[j] = pty_sessions[j]]_vars

\* a successful write on a session that already had a command written
C10_Witness ==
    /\ ret.op = "execute_command"
    /\ ret.result.ok
    /\ ret.args[1] \in Registered(pty_sessions)
    /\ Len(pty_sessions[ret.args[1]].writer) > Len(ret.args[2]) + 1
    /\ pty_sessions[ret.args[1]].current_command[1].id = ret.result.value[1]


\* C11: a write_command whose PTY write fails returns an error value, leaves
\* the session registered in both registries with its geometry, leaves every
\* other session and the active pointer as they were, and leaves the
\* manager usable.
C11_WriteFailure ==
    [][(ret'.op = "execute_command" /\ ret'.result.err = "write")
        => LET id == ret'.args[1]
           IN  /\ ~ret'.result.ok
               /\ sessions' = sessions
               /\ get_active_session' = get_active_session
               /\ Registered(pty_sessions') = Registered(pty_sessions)
               /\ id \in Registered(pty_sessions') /\ id \in Registered(sessions')
               /\ pty_sessions'[id].pty = pty_sessions[id].pty
               /\ \A j \in Registered(pty_sessions) \ {id} :
                     pty_sessions'[j] = pty_sessions[j]
               /\ readers' = readers]_vars

\* a failed write on the active session while another session is open
C11_Witness ==
    /\ ret.op = "execute_command"
    /\ ret.result.err = "write"
    /\ get_active_session = Some(ret.args[1])
    /\ Cardinality(Registered(sessions)) = 2
    /\ Registered(pty_sessions) = Registered(sessions)

\* C12: a create_session that fails at any of its steps adds no session to
\* either registry, leaves no reader thread behind, and leaves the active
\* pointer and every existing session as they were.
C12_CreateFailure ==
    [][(ret'.op = "create_session" /\ ~ret'.result.ok)
        => /\ ret'.result.err \in SpawnFailures
           /\ pty_sessions' = pty_sessions
           /\ sessions' = sessions
           /\ readers' = readers
           /\ get_active_session' = get_active_session]_vars

\* the last step, take_writer, failed while a session was open and active
C12_Witness ==
    /\ ret.op = "create_session"
    /\ ret.result.err = "take_writer"
    /\ Registered(sessions) # {}
    /\ get_active_session # None
    /\ Registered(readers) = Registered(sessions)


(***************************************************************************)
(* ConcSpec: SessionManager called through &self from several threads.     *)
(* The methods take no lock of their own around a whole call: every        *)
(* statement that locks one of the three mutexes is one step, and a step   *)
(* that needs the sessions lock waits while another thread holds it.       *)
(***************************************************************************)
\* ids a thread can name: ids returned by create_session, ids it can read
\* from list_sessions(), and 0
ConcIdArgs == IdArgs \cup DOMAIN sessions

historyUnused == <<ret, before, onlyCreates>>

\* session.rs:33, self.pty_manager.create_session()?
t_create_pty(t, name, home, failure) ==
    /\ threads[t].pc = "idle"
    /\ uuid < MaxUuid
    /\ LET session_id == uuid + 1
       IN  /\ uuid' = uuid + 1
           /\ pty_sessions' = PtyManager_create_session(session_id, failure)
           /\ readers' = spawn_reader(session_id, failure)
           /\ pipe' = openpty(session_id, failure)
           /\ threads' = [threads EXCEPT ![t] =
                 IF failure # None THEN Idle
                 ELSE [pc |-> "create_insert",
                       session |-> TerminalSession(session_id, name, home)]]
    /\ UNCHANGED <<sessions, active_session, created, closed, mutex>>
    /\ UNCHANGED <<busVars, wizardVars, pty_lock>>
    /\ UNCHANGED <<historyUnused, channel, receivers, commanded>>

\* session.rs:43, self.sessions.lock().unwrap().insert(..)
t_create_insert(t) ==
    /\ threads[t].pc = "create_insert"
    /\ mutex = None
    /\ sessions' = Insert(sessions, threads[t].session.id, threads[t].session)
    /\ threads' = [threads EXCEPT ![t].pc = "create_activate"]
    /\ UNCHANGED <<active_session, pty_sessions, uuid, created, closed, mutex>>
    /\ UNCHANGED <<busVars, wizardVars, pty_lock>>
    /\ UNCHANGED <<historyUnused, readers, streamVars>>

\* session.rs:44-46, *self.active_session.lock().unwrap() = Some(..); Ok(..)
t_create_activate(t) ==
    /\ threads[t].pc = "create_activate"
    /\ active_session' = Some(threads[t].session.id)
    /\ created' = Append(created, threads[t].session.id)
    /\ threads' = [threads EXCEPT ![t] = Idle]
    /\ UNCHANGED <<sessions, pty_sessions, uuid, closed, mutex>>
    /\ UNCHANGED <<busVars, wizardVars, pty_lock>>
    /\ UNCHANGED <<historyUnused, readers, streamVars>>

\* session.rs:83, self.pty_manager.close_session(session_id)?
t_close_pty(t, session_id) ==
    /\ threads[t].pc = "idle"
    /\ pty_sessions' = PtyManager_close_session(session_id)
    /\ threads' = [threads EXCEPT ![t] =
                      [pc |-> "close_remove", session_id |-> session_id]]
    /\ UNCHANGED <<sessions, active_session, uuid, created, closed, mutex>>
    /\ UNCHANGED <<busVars, wizardVars, pty_lock>>
    /\ UNCHANGED <<historyUnused, readers, streamVars>>

\* session.rs:84, self.sessions.lock().unwrap().remove(session_id)
t_close_remove(t) ==
    /\ threads[t].pc = "close_remove"
    /\ mutex = None
    /\ sessions' = Remove(sessions, threads[t].session_id)
    /\ threads' = [threads EXCEPT ![t].pc = "close_read_active"]
    /\ UNCHANGED <<active_session, pty_sessions, uuid, created, closed, mutex>>
    /\ UNCHANGED <<busVars, wizardVars, pty_lock>>
    /\ UNCHANGED <<historyUnused, readers, streamVars>>

\* session.rs:87-88, let active = ..clone(); if active == Some(session_id)
t_close_read_active(t) ==
    /\ threads[t].pc = "close_read_active"
    /\ IF active_session = Some(threads[t].session_id)
       THEN /\ threads' = [threads EXCEPT ![t].pc = "close_lock_sessions"]
            /\ UNCHANGED closed
       ELSE /\ threads' = [threads EXCEPT ![t] = Idle]
            /\ closed' = closed \cup {threads[t].session_id}
    /\ UNCHANGED <<sessions, active_session, pty_sessions, uuid, created, mutex>>
    /\ UNCHANGED <<busVars, wizardVars, pty_lock>>
    /\ UNCHANGED <<historyUnused, readers, streamVars>>

\* session.rs:89-90, let sessions = self.sessions.lock().unwrap();
\* let new_active = sessions.keys().next().cloned(); the guard stays held
t_close_lock_sessions(t) ==
    /\ threads[t].pc = "close_lock_sessions"
    /\ mutex = None
    /\ mutex' = Some(t)
    /\ \E new_active \in NewActive(sessions) :
          threads' = [threads EXCEPT ![t] =
                         [pc |-> "close_set_active",
                          session_id |-> threads[t].session_id,
                          new_active |-> new_active]]
    /\ UNCHANGED <<sessions, active_session, pty_sessions, uuid, created, closed>>
    /\ UNCHANGED <<busVars, wizardVars, pty_lock>>
    /\ UNCHANGED <<historyUnused, readers, streamVars>>

\* session.rs:91-94, *self.active_session.lock().unwrap() = new_active; the
\* sessions guard is dropped at the end of the block; Ok(())
t_close_set_active(t) ==
    /\ threads[t].pc = "close_set_active"
    /\ active_session' = threads[t].new_active
    /\ mutex' = None
    /\ closed' = closed \cup {threads[t].session_id}
    /\ threads' = [threads EXCEPT ![t] = Idle]
    /\ UNCHANGED <<sessions, pty_sessions, uuid, created>>
    /\ UNCHANGED <<busVars, wizardVars, pty_lock>>
    /\ UNCHANGED <<historyUnused, readers, streamVars>>

ConcNext ==
    \/ \E t \in Threads, name \in Names, home \in HomeEnv,
          failure \in {None} \cup {Some(f) : f \in SpawnFailures} :
            t_create_pty(t, name, home, failure)
    \/ \E t \in Threads : t_create_insert(t)
    \/ \E t \in Threads : t_create_activate(t)
    \/ \E t \in Threads, session_id \in ConcIdArgs : t_close_pty(t, session_id)
    \/ \E t \in Threads : t_close_remove(t)
    \/ \E t \in Threads : t_close_read_active(t)
    \/ \E t \in Threads : t_close_lock_sessions(t)
    \/ \E t \in Threads : t_close_set_active(t)

ConcSpec == Init /\ [][ConcNext]_vars

\* C13: in every state another caller of the SessionManager can observe,
\* the ids of the logical registry are the ids of the PtyManager registry.
C13_RegistriesAgree == Registered(sessions) = Registered(pty_sessions)


(***************************************************************************)
(* StreamSpec: the output stream of PtyManager.  The calls of PtyManager   *)
(* come one at a time; between them each reader thread runs its loop (read *)
(* what the shell wrote, publish it) and the holders of a                  *)
(* broadcast::Receiver take what is there for them.                        *)
(***************************************************************************)
managerUnused == <<sessions, active_session, ret, closed, onlyCreates, before>>

TerminalOutput(session_id, content, timestamp) ==
    [session_id |-> session_id,
     content |-> content,
     is_error |-> FALSE,
     timestamp |-> timestamp]

\* the position the next stored value gets (tail.pos)
tail_pos == Len(channel.sent)

\* the values the channel still holds: the last `slots` stored at most
held == SubSeq(channel.sent,
               IF tail_pos > channel.slots THEN tail_pos - channel.slots + 1 ELSE 1,
               tail_pos)

\* a send that puts the new value ahead of those stored
send_front(output) ==
    IF channel.rx_cnt = 0
    THEN [channel EXCEPT !.discarded = @ + 1]
    ELSE [channel EXCEPT !.sent = <<output>> \o @]

\* Sender::send were it to keep the oldest values: with a receiver a full
\* channel behind, the new value is let go
send_keep_oldest(output) ==
    IF \/ channel.rx_cnt = 0
       \/ \E r \in DOMAIN receivers : tail_pos - receivers[r].next >= channel.slots
    THEN [channel EXCEPT !.discarded = @ + 1]
    ELSE [channel EXCEPT !.sent = Append(@, output)]

\* Sender::send: with no receiver the value comes back in the Err and is
\* not stored; otherwise it takes the next slot, over the oldest held value
\* when every slot is taken.  It never waits.
send(output) ==
    IF channel.rx_cnt = 0
    THEN [channel EXCEPT !.discarded = @ + 1]
    ELSE [channel EXCEPT !.sent = Append(@, output)]

\* PtyManager::create_session, called on the PtyManager itself
p_create_session(failure) ==
    /\ uuid < MaxUuid
    /\ uuid + 1 \in StreamIds
    /\ LET session_id == uuid + 1
       IN  /\ uuid' = uuid + 1
           /\ pty_sessions' = PtyManager_create_session(session_id, failure)
           /\ readers' = spawn_reader(session_id, failure)
           /\ pipe' = openpty(session_id, failure)
           /\ created' = IF failure # None THEN created
                         ELSE Append(created, session_id)
    /\ UNCHANGED <<busVars, wizardVars, pty_lock>>
    /\ UNCHANGED <<managerUnused, channel, receivers, commanded, concVars>>

\* PtyManager::write_command
p_write_command(session_id, command, timestamp, written) ==
    /\ IF session_id \in DOMAIN pty_sessions
       THEN /\ uuid < MaxUuid
            /\ uuid' = uuid + 1
       ELSE UNCHANGED uuid
    /\ pty_sessions' =
          PtyManager_write_command(session_id, command, uuid + 1, timestamp, written)
    /\ commanded' =
          IF PtyManager_write_result(session_id, command, uuid + 1, written).ok
             /\ session_id \notin DOMAIN commanded
          THEN Insert(commanded, session_id, pipe[session_id].produced)
          ELSE commanded
    /\ UNCHANGED <<busVars, wizardVars, pty_lock>>
    /\ UNCHANGED <<managerUnused, created, readers, pipe, channel, receivers, concVars>>

\* PtyManager::close_session: the PtySession goes, with its master handle
\* and its writer; the reader thread keeps the handle it cloned
p_close_session(session_id) ==
    /\ pty_sessions' = PtyManager_close_session(session_id)
    /\ UNCHANGED <<busVars, wizardVars, pty_lock>>
    /\ UNCHANGED <<managerUnused, uuid, created, readers, streamVars, concVars>>

\* a receiver that is first handed what the channel still holds
get_output_receiver_replay(r) ==
    /\ r \notin DOMAIN receivers
    /\ receivers' = Insert(receivers, r,
                           [start |-> tail_pos, next |-> tail_pos - Len(held),
                            got |-> <<>>, after |-> DOMAIN readers])
    /\ channel' = [channel EXCEPT !.rx_cnt = @ + 1]
    /\ UNCHANGED <<busVars, wizardVars, pty_lock>>
    /\ UNCHANGED <<managerVars, readers, pipe, commanded, concVars>>

\* PtyManager::get_output_receiver: Sender::subscribe, a receiver that
\* starts at the tail of the channel
get_output_receiver(r) ==
    /\ r \notin DOMAIN receivers
    /\ receivers' = Insert(receivers, r,
                           [start |-> tail_pos, next |-> tail_pos, got |-> <<>>,
                            after |-> DOMAIN readers])
    /\ channel' = [channel EXCEPT !.rx_cnt = @ + 1]
    /\ UNCHANGED <<busVars, wizardVars, pty_lock>>
    /\ UNCHANGED <<managerVars, readers, pipe, commanded, concVars>>

\* a receiver that hands out the newest value only, as a watch channel does
recv_latest(r) ==
    /\ r \in DOMAIN receivers
    /\ receivers[r].next < tail_pos
    /\ receivers' = [receivers EXCEPT ![r].next = tail_pos,
                                      ![r].got = Append(@, channel.sent[tail_pos])]
    /\ UNCHANGED <<busVars, wizardVars, pty_lock>>
    /\ UNCHANGED <<managerVars, readers, pipe, channel, commanded, concVars>>

\* Receiver::recv when it has something to return: the value at its
\* position, or Lagged(n) when that value has been overwritten, after which
\* it stands at the oldest value still held
recv(r) ==
    /\ r \in DOMAIN receivers
    /\ receivers[r].next < tail_pos
    /\ LET rx == receivers[r]
           oldest == tail_pos - channel.slots
       IN  receivers' = [receivers EXCEPT ![r] =
              IF rx.next < oldest
              THEN [rx EXCEPT !.next = oldest,
                              !.got = Append(@, [lagged |-> oldest - rx.next])]
              ELSE [rx EXCEPT !.next = @ + 1,
                              !.got = Append(@, channel.sent[rx.next + 1])]]
    /\ UNCHANGED <<busVars, wizardVars, pty_lock>>
    /\ UNCHANGED <<managerVars, readers, pipe, channel, commanded, concVars>>

\* items read so far from all the PTYs
Produced == LET RECURSIVE Sum(_)
                Sum(S) == IF S = {} THEN 0
                          ELSE LET x == CHOOSE x \in S : TRUE
                               IN  pipe[x].produced + Sum(S \ {x})
            IN  Sum(DOMAIN pipe)

\* what the next turn of buf_reader.lines() can yield: the next line the
\* shell wrote (numbered in the order the shell wrote them), a line that is
\* not UTF-8 and comes as an Err item, or the end of the stream
LineItems == {"line", "invalid", "eof"}

\* pty.rs:94-104, one turn of `for line in buf_reader.lines()` up to the
\* send: the blocking read returns with the next item; a line is made into
\* a TerminalOutput, an Err item is passed over, the end of the stream ends
\* the thread
reader_read(session_id, item, timestamp) ==
    /\ session_id \in DOMAIN readers
    /\ readers[session_id].pc = "read"
    /\ pipe[session_id].alive
    /\ IF item = "eof"
       THEN /\ pipe' = [pipe EXCEPT ![session_id].alive = FALSE]
            /\ readers' = [readers EXCEPT ![session_id].pc = "done"]
       ELSE /\ Produced < MaxLines
            /\ pipe' = [pipe EXCEPT ![session_id].produced = @ + 1,
                                    ![session_id].failed = @ \/ item = "invalid"]
            /\ readers' = [readers EXCEPT ![session_id] =
                  IF item = "line"
                  THEN [pc |-> "send",
                        output |-> Some(TerminalOutput(session_id,
                                                       pipe[session_id].produced + 1,
                                                       timestamp))]
                  ELSE @]
    /\ UNCHANGED <<busVars, wizardVars, pty_lock>>
    /\ UNCHANGED <<managerVars, channel, receivers, commanded, concVars>>

\* a reader whose send waits for room, as a bounded mpsc sender would
reader_send_when_room(session_id) ==
    /\ session_id \in DOMAIN readers
    /\ readers[session_id].pc = "send"
    /\ \A r \in DOMAIN receivers : tail_pos - receivers[r].next < channel.slots
    /\ channel' = send(readers[session_id].output[1])
    /\ readers' = [readers EXCEPT ![session_id] = Reader]
    /\ UNCHANGED <<busVars, wizardVars, pty_lock>>
    /\ UNCHANGED <<managerVars, pipe, receivers, commanded, concVars>>

\* a reader that also appends the line to the output of the command the
\* session is running, through the registry it was given
reader_send_to_block(session_id) ==
    /\ session_id \in DOMAIN readers
    /\ readers[session_id].pc = "send"
    /\ channel' = send(readers[session_id].output[1])
    /\ readers' = [readers EXCEPT ![session_id] = Reader]
    /\ pty_sessions' =
          IF /\ session_id \in DOMAIN pty_sessions
             /\ pty_sessions[session_id].current_command # None
          THEN [pty_sessions EXCEPT ![session_id].current_command[1].output =
                   Append(@, readers[session_id].output[1].content)]
          ELSE pty_sessions
    /\ UNCHANGED <<busVars, wizardVars, pty_lock>>
    /\ UNCHANGED <<managerUnused, uuid, created, pipe, receivers, commanded, concVars>>

\* pty.rs:106, let _ = output_sender.send(output), and back to the loop head
reader_send(session_id) ==
    /\ session_id \in DOMAIN readers
    /\ readers[session_id].pc = "send"
    /\ channel' = send(readers[session_id].output[1])
    /\ readers' = [readers EXCEPT ![session_id] = Reader]
    /\ UNCHANGED <<busVars, wizardVars, pty_lock>>
    /\ UNCHANGED <<managerVars, pipe, receivers, commanded, concVars>>

StreamNext ==
    \/ \E failure \in {None} : p_create_session(failure)
    \/ \E r \in Subscribers : get_output_receiver(r)
    \/ \E r \in Subscribers : recv(r)
    \/ \E session_id \in DOMAIN readers, item \in {"line", "invalid"}, timestamp \in Times :
          reader_read(session_id, item, timestamp)
    \/ \E session_id \in DOMAIN readers : reader_send(session_id)

StreamSpec == Init /\ [][StreamNext]_vars

(***************************************************************************)
(* One session and one receiver of the stream, with the scheduling the     *)
(* threads get: a reader thread that holds a line gets to send it, a       *)
(* receiver task with something to take gets to take it.  Calls of the     *)
(* API and what the shell writes are under no obligation.                  *)
(***************************************************************************)

LiveIds == {1}
LiveSubscribers == {"r1"}

LiveNext ==
    \/ uuid = 0 /\ p_create_session(None)
    \/ \E session_id \in LiveIds, command \in StreamCommands, timestamp \in Times :
          p_write_command(session_id, command, timestamp, Len(command) + 1)
    \/ \E session_id \in LiveIds : p_close_session(session_id)
    \/ \E r \in LiveSubscribers : get_output_receiver(r)
    \/ \E r \in LiveSubscribers : recv(r)
    \/ \E session_id \in LiveIds, item \in LineItems, timestamp \in Times :
          reader_read(session_id, item, timestamp)
    \/ \E session_id \in LiveIds : reader_send(session_id)

FairStreamSpec ==
    /\ Init
    /\ [][LiveNext]_vars
    /\ \A session_id \in LiveIds : WF_vars(reader_send(session_id))
    /\ \A r \in LiveSubscribers : WF_vars(recv(r))

\* the reader of session id holds line n, read after the first command
\* written to the session, and is about to publish it
HoldsResponse(id, n) ==
    /\ id \in DOMAIN readers
    /\ readers[id].pc = "send"
    /\ readers[id].output[1].content = n
    /\ id \in DOMAIN commanded
    /\ n > commanded[id]

IsOutput(v) == "session_id" \in DOMAIN v

\* receiver r has been handed line n of session id
Delivered(r, id, n) ==
    /\ r \in DOMAIN receivers
    /\ \E i \in 1..Len(receivers[r].got) :
          LET v == receivers[r].got[i]
          IN  IsOutput(v) /\ v.session_id = id /\ v.content = n

\* receiver r is past line n of session id without having been handed it:
\* the line fell in a gap it was told of
Skipped(r, id, n) ==
    /\ r \in DOMAIN receivers
    /\ ~Delivered(r, id, n)
    /\ \E p \in 1..tail_pos :
          /\ channel.sent[p].session_id = id
          /\ channel.sent[p].content = n
          /\ receivers[r].next >= p
          /\ receivers[r].start < p

\* C14 as stated: a line the shell writes after a command was written to
\* its session is eventually delivered to some subscriber
C14_EventuallyDelivered ==
    \A id \in LiveIds, n \in 1..(MaxLines + 1) :
        HoldsResponse(id, n) ~> (\E r \in LiveSubscribers : Delivered(r, id, n))

\* C14, amended: every receiver that subscribed before the line is
\* published is eventually handed it, or is told of a gap that covers it
C14_DeliveredOrSkipped ==
    \A id \in LiveIds, n \in 1..(MaxLines + 1), r \in LiveSubscribers :
        (HoldsResponse(id, n) /\ r \in DOMAIN receivers)
            ~> (Delivered(r, id, n) \/ Skipped(r, id, n))

\* a line read after a command has been delivered to a receiver that was
\* subscribed before it
C14_Witness ==
    \E id \in DOMAIN commanded, r \in DOMAIN receivers :
        \E n \in 1..MaxLines : n > commanded[id] /\ Delivered(r, id, n)

\* the lines of session id that receiver r has been handed, in the order
\* it was handed them
Lines(r, id) ==
    LET OfSession(v) == IsOutput(v) /\ v.session_id = id
    IN  SelectSeq(receivers[r].got, OfSession)

IsPrefix(s, t) == Len(s) <= Len(t) /\ SubSeq(t, 1, Len(s)) = s

\* receiver r has never been told of a gap
NeverLagged(r) == \A i \in 1..Len(receivers[r].got) : IsOutput(receivers[r].got[i])

\* C15 as stated: of two subscribers made after a session was created, one
\* has seen of that session what the other has, or a beginning of it
C15_SameSequence ==
    \A r1 \in DOMAIN receivers, r2 \in DOMAIN receivers :
        \A id \in receivers[r1].after \cap receivers[r2].after :
            IsPrefix(Lines(r1, id), Lines(r2, id)) \/ IsPrefix(Lines(r2, id), Lines(r1, id))

\* C15, amended: two subscribers that were never told of a gap have been
\* handed the same values, in the same order, over the stretch of the
\* stream both subscribed before and both have taken
C15_SameFromLaterSubscription ==
    \A r1 \in DOMAIN receivers, r2 \in DOMAIN receivers :
        (NeverLagged(r1) /\ NeverLagged(r2)) =>
            LET x1 == receivers[r1]
                x2 == receivers[r2]
                from == IF x1.start > x2.start THEN x1.start ELSE x2.start
                upto == IF x1.next < x2.next THEN x1.next ELSE x2.next
            IN  /\ Len(x1.got) = x1.next - x1.start
                /\ Len(x2.got) = x2.next - x2.start
                /\ \A p \in (from + 1)..upto :
                      x1.got[p - x1.start] = x2.got[p - x2.start]

\* two subscribers that subscribed at different positions of the stream,
\* after the session was created, have both been handed a line of it and
\* one has been handed a line the other never will
C15_Witness ==
    \E r1 \in DOMAIN receivers, r2 \in DOMAIN receivers :
        \E id \in receivers[r1].after \cap receivers[r2].after :
            /\ NeverLagged(r1) /\ NeverLagged(r2)
            /\ receivers[r1].start < receivers[r2].start
            /\ Len(Lines(r2, id)) > 0
            /\ Len(Lines(r1, id)) > Len(Lines(r2, id))
            /\ ~IsPrefix(Lines(r2, id), Lines(r1, id))
            /\ receivers[r1].next > receivers[r2].start + 1

\* C16: a subscriber that was never told of a gap has been handed exactly
\* the values stored after it subscribed, up to where it stands, each once
\* and in the order they were stored, and none stored before; while there
\* is no subscriber nothing is stored
C16_ExactlyOnceInOrder ==
    /\ \A r \in DOMAIN receivers :
          NeverLagged(r) =>
              LET rx == receivers[r]
              IN  /\ rx.got = SubSeq(channel.sent, rx.start + 1, rx.next)
                  /\ \A i \in 1..Len(rx.got), j \in 1..Len(rx.got) :
                        i # j => rx.got[i] # rx.got[j]
                  /\ \A i \in 1..Len(rx.got), p \in 1..rx.start :
                        rx.got[i] # channel.sent[p]
    /\ channel.rx_cnt = 0 => channel.sent = <<>>

\* lines were published and discarded with no subscriber, then others were
\* stored before a subscriber came, which has since been handed the lines of
\* two sessions that came after it and has nothing left to take
C16_Witness ==
    /\ channel.discarded > 0
    /\ \E r \in DOMAIN receivers :
          /\ NeverLagged(r)
          /\ receivers[r].start > 0
          /\ receivers[r].next = tail_pos
          /\ \E i, j \in 1..Len(receivers[r].got) :
                receivers[r].got[i].session_id # receivers[r].got[j].session_id

\* the stored values receiver r can still be handed
Unread(r) ==
    LET behind == tail_pos - receivers[r].next
    IN  IF behind > Len(held) THEN Len(held) ELSE behind

\* C17 as stated: no subscriber ever has more than the capacity given to
\* broadcast::channel waiting for it
C17_AtMostCapacityRetained ==
    \A r \in DOMAIN receivers : Unread(r) <= ChannelCapacity

\* a step in which receiver r takes from the channel
Takes(r) ==
    /\ r \in DOMAIN receivers
    /\ r \in DOMAIN receivers'
    /\ receivers'[r] # receivers[r]

\* the capacity rounded up to a power of two
SlotLimit == next_power_of_two(ChannelCapacity)

\* C17, amended: the channel holds the capacity rounded up to a power of
\* two at most; a subscriber more than that behind is told of a gap of
\* exactly the values no longer held and stands at the oldest held, any
\* other is handed the value it stands at; no other subscriber is touched
C17_BoundedWithGaps ==
    [][/\ Len(held') <= SlotLimit
       /\ \A r \in Subscribers :
             Takes(r) =>
                 LET rx == receivers[r]
                     behind == tail_pos - rx.next
                 IN  /\ IF behind > SlotLimit
                        THEN /\ receivers'[r].got =
                                   Append(rx.got, [lagged |-> behind - SlotLimit])
                             /\ receivers'[r].next = tail_pos - SlotLimit
                        ELSE /\ receivers'[r].got =
                                   Append(rx.got, channel.sent[rx.next + 1])
                             /\ receivers'[r].next = rx.next + 1
                     /\ \A o \in DOMAIN receivers \ {r} :
                           receivers'[o] = receivers[o]
                     /\ channel' = channel]_vars

\* one subscriber was told of a gap and has gone on to the values after it,
\* another has been handed more values than the channel holds, none missing
C17_Witness ==
    \E r \in DOMAIN receivers, o \in DOMAIN receivers :
        /\ Len(receivers[r].got) >= 2
        /\ ~IsOutput(receivers[r].got[1])
        /\ IsOutput(receivers[r].got[2])
        /\ receivers[r].got[2] = channel.sent[receivers[r].got[1].lagged + 1]
        /\ NeverLagged(o)
        /\ Len(receivers[o].got) > channel.slots
        /\ receivers[o].got = SubSeq(channel.sent, 1, receivers[o].next)

\* C18: a reader thread that holds a line can always take its publish step,
\* whatever the receivers are and have taken, and the step leaves it at the
\* head of its loop, about to read
C18_PublishNeverBlocked ==
    \A id \in DOMAIN readers :
        readers[id].pc = "send" =>
            ENABLED (reader_send(id) /\ readers'[id] = Reader)

\* more lines have been published than the channel has slots while a
\* subscriber has taken none of them, and every reader is back at its read
C18_Witness ==
    /\ tail_pos > channel.slots
    /\ \E r \in DOMAIN receivers : receivers[r].next = 0
    /\ DOMAIN readers # {}
    /\ \A id \in DOMAIN readers : readers[id] = Reader

\* C19: the values stored on the stream for one session carry that
\* session's lines in the order the shell wrote them (a line's content is
\* its number in that order), and the line a reader holds comes after all
\* of its session's stored lines
C19_SessionOrder ==
    /\ \A p \in 1..tail_pos, q \in 1..tail_pos :
          (p < q /\ channel.sent[p].session_id = channel.sent[q].session_id)
              => channel.sent[p].content < channel.sent[q].content
    /\ \A id \in DOMAIN readers :
          readers[id].pc = "send" =>
              \A p \in 1..tail_pos :
                  channel.sent[p].session_id = id
                      => channel.sent[p].content < readers[id].output[1].content

\* two lines of one session are on the stream with a line of another
\* session between them
C19_Witness ==
    \E p \in 1..tail_pos, q \in 1..tail_pos, u \in 1..tail_pos :
        /\ p < q /\ q < u
        /\ channel.sent[p].session_id = channel.sent[u].session_id
        /\ channel.sent[p].session_id # channel.sent[q].session_id

(***************************************************************************)
(* The EventBus of crates/core: subscriptions with their handlers in one   *)
(* map behind a RwLock, keyed by the subscription's id.  A pattern is a    *)
(* string, here the sequence of its characters.                            *)
(***************************************************************************)

\* Subscription::new calls in one behaviour
MaxSubscriptions == 2

\* characters in one pattern given to pattern_matches
MaxPatternLen == 4

\* the strings "a.b", "a.*", "**" and "c" as sequences of characters
Str_a_b == <<"a", ".", "b">>
Str_a_star == <<"a", ".", "*">>
Str_star_star == <<"*", "*">>
Str_c == <<"c">>

\* patterns given to subscribe
SubPatterns == {Str_a_b, Str_a_star, Str_star_star}

\* patterns given to emit
EventPatterns == {Str_a_b, Str_c}

\* what a handler does when it is called: returns, returns Err, panics
SimpleHandlers == {[type |-> "Simple", does |-> "ok"],
                   [type |-> "Simple", does |-> "panic"]}
ResultHandlers == {[type |-> "Result", does |-> "err"]}

\* str::contains(c)
contains(str, c) == \E i \in 1..Len(str) : str[i] = c

\* str::split('.') collected: the pieces between the dots, the empty ones
\* included, so that a string without a dot is its own single piece
RECURSIVE split(_)
split(str) ==
    IF ~contains(str, ".")
    THEN <<str>>
    ELSE LET i == CHOOSE i \in 1..Len(str) :
                      str[i] = "." /\ \A j \in 1..(i - 1) : str[j] # "."
         IN  <<SubSeq(str, 1, i - 1)>> \o split(SubSeq(str, i + 1, Len(str)))

\* a matcher whose ** stands for one segment or more
RECURSIVE matches_parts_nonempty(_, _)
matches_parts_nonempty(sub_parts, event_parts) ==
    IF sub_parts = <<>>
    THEN event_parts = <<>>
    ELSE IF sub_parts[1] = <<"*", "*">>
    THEN /\ event_parts # <<>>
         /\ \/ matches_parts_nonempty(Tail(sub_parts), Tail(event_parts))
            \/ matches_parts_nonempty(sub_parts, Tail(event_parts))
    ELSE IF event_parts = <<>>
    THEN FALSE
    ELSE IF sub_parts[1] = <<"*">>
    THEN matches_parts_nonempty(Tail(sub_parts), Tail(event_parts))
    ELSE /\ sub_parts[1] = event_parts[1]
         /\ matches_parts_nonempty(Tail(sub_parts), Tail(event_parts))

RECURSIVE matches_parts(_, _)
matches_parts(sub_parts, event_parts) ==
    IF sub_parts = <<>>
    THEN event_parts = <<>>
    ELSE IF sub_parts[1] = <<"*", "*">>
    THEN \/ matches_parts(Tail(sub_parts), event_parts)
         \/ event_parts # <<>> /\ matches_parts(sub_parts, Tail(event_parts))
    ELSE IF event_parts = <<>>
    THEN FALSE
    ELSE IF sub_parts[1] = <<"*">>
    THEN matches_parts(Tail(sub_parts), Tail(event_parts))
    ELSE /\ sub_parts[1] = event_parts[1]
         /\ matches_parts(Tail(sub_parts), Tail(event_parts))

pattern_matches(subscription_pattern, event_pattern) ==
    IF subscription_pattern = <<"*", "*">> THEN TRUE
    ELSE IF subscription_pattern = event_pattern THEN TRUE
    ELSE IF ~contains(subscription_pattern, "*") THEN FALSE
    ELSE matches_parts(split(subscription_pattern), split(event_pattern))

\* Subscription::new: the id is "sub_" and the counter's value before the
\* fetch_add, one string per value
Subscription(pattern) == [id |-> SUBSCRIPTION_COUNTER, pattern |-> pattern]

HandlerEntry(subscription, handler) ==
    [subscription |-> subscription, handler |-> handler]

subscription_count == Cardinality(DOMAIN handlers)

\* a Subscription a caller holds, with whether a subscribe call returned it
Held(subscription, registered) ==
    [subscription |-> subscription, registered |-> registered]

\* EventBusBuilder::build for the bus of the behaviour, before anything
\* else happens on it
build(catch) ==
    /\ SUBSCRIPTION_COUNTER = 0
    /\ bus_ret.op = "new"
    /\ catch_panics' = catch
    /\ bus_ret' = Call("build", <<catch>>, None)
    /\ UNCHANGED <<handlers, SUBSCRIPTION_COUNTER, subscriptions, unsubscribed>>
    /\ UNCHANGED <<managerVars, readers, streamVars, concVars, wizardVars, pty_lock>>

\* Subscription::new called by itself: a subscription no bus knows
Subscription_new(pattern) ==
    /\ SUBSCRIPTION_COUNTER < MaxSubscriptions
    /\ SUBSCRIPTION_COUNTER' = SUBSCRIPTION_COUNTER + 1
    /\ subscriptions' = subscriptions \cup {Held(Subscription(pattern), FALSE)}
    /\ bus_ret' = Call("Subscription::new", <<pattern>>, Subscription(pattern))
    /\ UNCHANGED <<handlers, catch_panics, unsubscribed>>
    /\ UNCHANGED <<managerVars, readers, streamVars, concVars, wizardVars, pty_lock>>

\* EventBus::subscribe and EventBus::subscribe_result, which differ in the
\* type of handler they store
subscribe(pattern, handler) ==
    /\ SUBSCRIPTION_COUNTER < MaxSubscriptions
    /\ LET subscription == Subscription(pattern)
       IN  /\ SUBSCRIPTION_COUNTER' = SUBSCRIPTION_COUNTER + 1
           /\ handlers' = Insert(handlers, subscription.id,
                                 HandlerEntry(subscription, handler))
           /\ subscriptions' = subscriptions \cup {Held(subscription, TRUE)}
           /\ bus_ret' = Call(IF handler.type = "Simple" THEN "subscribe"
                              ELSE "subscribe_result",
                              <<pattern>>, subscription)
    /\ UNCHANGED <<catch_panics, unsubscribed>>
    /\ UNCHANGED <<managerVars, readers, streamVars, concVars, wizardVars, pty_lock>>

\* an unsubscribe that removes by pattern
unsubscribe_by_pattern(subscription) ==
    /\ LET gone == {id \in DOMAIN handlers :
                       handlers[id].subscription.pattern = subscription.pattern}
       IN  /\ handlers' = [id \in DOMAIN handlers \ gone |-> handlers[id]]
           /\ bus_ret' = Call("unsubscribe", <<subscription>>, gone # {})
           /\ unsubscribed' = unsubscribed \cup gone
    /\ UNCHANGED <<catch_panics, SUBSCRIPTION_COUNTER, subscriptions>>
    /\ UNCHANGED <<managerVars, readers, streamVars, concVars, wizardVars, pty_lock>>

\* EventBus::unsubscribe
unsubscribe(subscription) ==
    /\ handlers' = Remove(handlers, subscription.id)
    /\ bus_ret' = Call("unsubscribe", <<subscription>>,
                       subscription.id \in DOMAIN handlers)
    /\ unsubscribed' = IF subscription.id \in DOMAIN handlers
                       THEN unsubscribed \cup {subscription.id}
                       ELSE unsubscribed
    /\ UNCHANGED <<catch_panics, SUBSCRIPTION_COUNTER, subscriptions>>
    /\ UNCHANGED <<managerVars, readers, streamVars, concVars, wizardVars, pty_lock>>

\* the ids of the entries emit_and_report collects for a pattern
matching_handlers(pattern) ==
    {id \in DOMAIN handlers :
        pattern_matches(handlers[id].subscription.pattern, pattern)}

\* the orders in which a map can yield some of the entries with ids in S:
\* the sequences over S in which no id comes twice
RECURSIVE Orderings(_)
Orderings(S) ==
    {<<>>} \cup UNION {{<<id>> \o o : o \in Orderings(S \ {id})} : id \in S}

\* EmitReport::new followed by add_result for each call in `calls`, a
\* sequence of handler ids
EmitReport(calls) ==
    LET Count(does) ==
            Cardinality({i \in DOMAIN calls : handlers[calls[i]].handler.does = does})
    IN  [success_count |-> Count("ok"),
         error_count |-> Count("err"),
         panic_count |-> Count("panic"),
         total_count |-> Len(calls)]

\* an emit that gives up at the first handler that panics, whatever
\* catch_panics says
emit_and_report_unwinding(pattern, ran) ==
    /\ LET matching == matching_handlers(pattern)
           panicking == {id \in matching : handlers[id].handler.does = "panic"}
       IN  IF panicking = {}
           THEN /\ Range(ran) = matching
                /\ bus_ret' = Call("emit_and_report", <<pattern>>,
                                   [invoked |-> Range(ran), calls |-> ran,
                                    panicked |-> FALSE,
                                    report |-> Some(EmitReport(ran))])
           ELSE /\ Range(ran) \subseteq matching
                /\ ran # <<>>
                /\ \A i \in DOMAIN ran : ran[i] \in panicking <=> i = Len(ran)
                /\ bus_ret' = Call("emit_and_report", <<pattern>>,
                                   [invoked |-> Range(ran), calls |-> ran,
                                    panicked |-> catch_panics = FALSE,
                                    report |-> IF catch_panics
                                               THEN Some(EmitReport(ran))
                                               ELSE None])
    /\ UNCHANGED <<handlers, catch_panics, SUBSCRIPTION_COUNTER, subscriptions,
                   unsubscribed>>
    /\ UNCHANGED <<managerVars, readers, streamVars, concVars, wizardVars, pty_lock>>

\* EventBus::emit_and_report.  The matching entries are collected from the
\* map's values, each once, and their handlers run in that order: `ran` is
\* the sequence of ids called.  With catch_panics every one runs and the
\* report counts them; without it the first handler that panics unwinds the
\* call: `ran` ends with that one, and there is no report.
emit_and_report(pattern, ran) ==
    /\ LET matching == matching_handlers(pattern)
           panicking == {id \in matching : handlers[id].handler.does = "panic"}
       IN  IF catch_panics \/ panicking = {}
           THEN /\ Range(ran) = matching
                /\ bus_ret' = Call("emit_and_report", <<pattern>>,
                                   [invoked |-> Range(ran), calls |-> ran,
                                    panicked |-> FALSE,
                                    report |-> Some(EmitReport(ran))])
           ELSE /\ Range(ran) \subseteq matching
                /\ ran # <<>>
                /\ \A i \in DOMAIN ran : ran[i] \in panicking <=> i = Len(ran)
                /\ bus_ret' = Call("emit_and_report", <<pattern>>,
                                   [invoked |-> Range(ran), calls |-> ran,
                                    panicked |-> TRUE,
                                    report |-> None])
    /\ UNCHANGED <<handlers, catch_panics, SUBSCRIPTION_COUNTER, subscriptions,
                   unsubscribed>>
    /\ UNCHANGED <<managerVars, readers, streamVars, concVars, wizardVars, pty_lock>>

\* Subscription::matches on a subscription that no bus holds: the pure
\* pattern_matches on the two strings
Subscription_matches(subscription_pattern, event_pattern) ==
    /\ bus_ret' = Call("pattern_matches", <<subscription_pattern, event_pattern>>,
                       pattern_matches(subscription_pattern, event_pattern))
    /\ UNCHANGED <<handlers, catch_panics, SUBSCRIPTION_COUNTER, subscriptions,
                   unsubscribed>>
    /\ UNCHANGED <<managerVars, readers, streamVars, concVars, wizardVars, pty_lock>>

BusNext ==
    \/ \E catch \in BOOLEAN : build(catch)
    \/ \E pattern \in SubPatterns : Subscription_new(pattern)
    \/ \E pattern \in SubPatterns, handler \in SimpleHandlers \cup ResultHandlers :
          subscribe(pattern, handler)
    \/ \E h \in subscriptions : unsubscribe(h.subscription)
    \/ \E pattern \in EventPatterns :
          \E ran \in Orderings(matching_handlers(pattern)) :
             emit_and_report(pattern, ran)

BusSpec == Init /\ [][BusNext]_vars

\* C20: an unsubscribe call answers whether the subscription was registered
\* and removes it and nothing else: true for a subscription that subscribe
\* returned and no earlier call removed, false otherwise; the count drops by
\* one exactly when it answers true; every other entry stays as it was; and
\* no emit invokes a handler that an unsubscribe has removed
C20_UnsubscribeExactlyThat ==
    [][/\ (bus_ret'.op = "unsubscribe" /\ <<bus_ret, handlers>>' # <<bus_ret, handlers>>) =>
             LET sub == bus_ret'.args[1]
                 first == /\ Held(sub, TRUE) \in subscriptions
                          /\ sub.id \notin unsubscribed
             IN  /\ bus_ret'.result = first
                 /\ sub.id \notin DOMAIN handlers'
                 /\ Cardinality(DOMAIN handlers') =
                       subscription_count - (IF first THEN 1 ELSE 0)
                 /\ \A id \in DOMAIN handlers \ {sub.id} :
                       id \in DOMAIN handlers' /\ handlers'[id] = handlers[id]
       /\ bus_ret'.op = "emit_and_report" =>
             bus_ret'.result.invoked \cap unsubscribed' = {}]_vars

\* an emit has invoked a handler after an unsubscribe removed another
\* handler whose pattern matches the emitted one, and a second unsubscribe
\* of a removed subscription is possible
C20_Witness ==
    /\ bus_ret.op = "emit_and_report"
    /\ bus_ret.result.invoked # {}
    /\ \E h \in subscriptions :
          /\ h.subscription.id \in unsubscribed
          /\ pattern_matches(h.subscription.pattern, bus_ret.args[1])

\* the calls an emit made are each matching subscription's handler, once
\* each, and the report counts them
CallsAllMatching(call) ==
    LET matching == matching_handlers(call.args[1])
        calls == call.result.calls
    IN  /\ Range(calls) = matching
        /\ Len(calls) = Cardinality(matching)
        /\ call.result.report # None
        /\ LET report == call.result.report[1]
           IN  /\ report.total_count = Cardinality(matching)
               /\ report.total_count =
                     report.success_count + report.error_count + report.panic_count
               /\ report.success_count =
                     Cardinality({id \in matching : handlers[id].handler.does = "ok"})
               /\ report.error_count =
                     Cardinality({id \in matching : handlers[id].handler.does = "err"})
               /\ report.panic_count =
                     Cardinality({id \in matching : handlers[id].handler.does = "panic"})

\* C21 as stated: whatever the bus, an emit has called the handler of every
\* matching subscription once, no other, and its report counts them
C21_EveryEmitCallsAllMatching ==
    bus_ret.op = "emit_and_report" => CallsAllMatching(bus_ret)

\* C21, amended: that holds of every emit on a bus that catches panics and
\* of every emit in which no handler panics; on a bus that does not catch
\* them, an emit in which a handler panics has called matching handlers
\* only, none twice, that one last, and has no report
C21_CallsAllMatchingUnlessUnwound ==
    bus_ret.op = "emit_and_report" =>
        LET matching == matching_handlers(bus_ret.args[1])
            calls == bus_ret.result.calls
        IN  IF catch_panics \/ \A id \in matching : handlers[id].handler.does # "panic"
            THEN ~bus_ret.result.panicked /\ CallsAllMatching(bus_ret)
            ELSE /\ bus_ret.result.panicked
                 /\ bus_ret.result.report = None
                 /\ Range(calls) \subseteq matching
                 /\ Len(calls) = Cardinality(Range(calls))
                 /\ calls # <<>>
                 /\ \A i \in DOMAIN calls :
                       handlers[calls[i]].handler.does = "panic" <=> i = Len(calls)

\* on a bus that catches panics an emit has called a handler that panics
\* and then one that returns Err, and both are counted
C21_Witness ==
    /\ catch_panics
    /\ bus_ret.op = "emit_and_report"
    /\ bus_ret.result.report # None
    /\ bus_ret.result.report[1].panic_count = 1
    /\ bus_ret.result.report[1].error_count = 1
    /\ Len(bus_ret.result.calls) = 2
    /\ handlers[bus_ret.result.calls[1]].handler.does = "panic"

(***************************************************************************)
(* pattern_matches as a function of its two arguments, over every pair of  *)
(* short strings of a letter, the star and the dot.                        *)
(***************************************************************************)

PatternChars == {"a", "*", "."}

\* the strings of at most n characters
Strings(n) == UNION {[1..k -> PatternChars] : k \in 0..n}

\* one call, on any pair of strings
PatternNext ==
    /\ bus_ret.op = "new"
    /\ \E subscription_pattern \in Strings(MaxPatternLen),
          event_pattern \in Strings(MaxPatternLen) :
           Subscription_matches(subscription_pattern, event_pattern)

PatternSpec == Init /\ [][PatternNext]_vars

\* the event's segments come from the subscription's by putting one segment
\* for each * and any number of segments for each **, the other segments
\* being equal: cut[i] is how many of the event's segments the first i
\* segments of the subscription account for
Derivable(subscription_pattern, event_pattern) ==
    LET S == split(subscription_pattern)
        E == split(event_pattern)
    IN  \E cut \in [0..Len(S) -> 0..Len(E)] :
            /\ cut[0] = 0
            /\ cut[Len(S)] = Len(E)
            /\ \A i \in 1..Len(S) :
                  /\ cut[i - 1] <= cut[i]
                  /\ \/ S[i] = <<"*", "*">>
                     \/ /\ cut[i] = cut[i - 1] + 1
                        /\ S[i] = <<"*">> \/ S[i] = E[cut[i]]

\* C22: pattern_matches answers true exactly for the pairs in which the
\* event's segment list can be obtained from the subscription's
C22_MatchesIffDerivable ==
    bus_ret.op = "pattern_matches" =>
        bus_ret.result = Derivable(bus_ret.args[1], bus_ret.args[2])

\* "a.**" has been matched against "a", where ** stands for no segment
C22_Witness ==
    bus_ret = Call("pattern_matches", <<<<"a", ".", "*", "*">>, <<"a">>>>, TRUE)

(***************************************************************************)
(* The first-run Wizard of crates/engine: one value, its methods called    *)
(* one at a time through &mut self.                                        *)
(***************************************************************************)

WizardStep == {"Welcome", "GpuConfiguration", "ThemeSelection", "VoiceSetup", "Complete"}

wizardUnused == <<managerVars, readers, streamVars, concVars, busVars, pty_lock>>

\* Wizard::current_step_index
current_step_index(step) ==
    CASE step = "Welcome" -> 0
      [] step = "GpuConfiguration" -> 1
      [] step = "ThemeSelection" -> 2
      [] step = "VoiceSetup" -> 3
      [] step = "Complete" -> 4

\* step data in which only the last step cannot be skipped
can_skip_but_last(step) == step # "Complete"

\* Wizard::get_step_data(step).can_skip
can_skip(step) ==
    CASE step = "Welcome" -> FALSE
      [] step = "GpuConfiguration" -> TRUE
      [] step = "ThemeSelection" -> TRUE
      [] step = "VoiceSetup" -> TRUE
      [] step = "Complete" -> FALSE

can_go_next == current_step # "Complete"
can_go_previous == current_step # "Welcome"
is_step_completed(step) == step \in Range(completed_steps)

\* an open that keeps the completed steps of the run before
open_keeping ==
    /\ is_open' = TRUE
    /\ current_step' = "Welcome"
    /\ wizard_ret' = Call("open", <<current_step>>, None)
    /\ UNCHANGED completed_steps
    /\ UNCHANGED wizardUnused

\* Wizard::open
open ==
    /\ is_open' = TRUE
    /\ current_step' = "Welcome"
    /\ completed_steps' = <<>>
    /\ wizard_ret' = Call("open", <<current_step>>, None)
    /\ UNCHANGED wizardUnused

\* Wizard::close
close ==
    /\ is_open' = FALSE
    /\ wizard_ret' = Call("close", <<current_step>>, None)
    /\ UNCHANGED <<current_step, completed_steps>>
    /\ UNCHANGED wizardUnused

\* the fields after Wizard::next_step, and its result
Wizard_next_step ==
    LET pushed == IF current_step \in Range(completed_steps)
                  THEN completed_steps
                  ELSE Append(completed_steps, current_step)
    IN  CASE current_step = "Welcome" ->
               [is_open |-> is_open, current_step |-> "GpuConfiguration",
                completed_steps |-> pushed, result |-> TRUE]
          [] current_step = "GpuConfiguration" ->
               [is_open |-> is_open, current_step |-> "ThemeSelection",
                completed_steps |-> pushed, result |-> TRUE]
          [] current_step = "ThemeSelection" ->
               [is_open |-> is_open, current_step |-> "VoiceSetup",
                completed_steps |-> pushed, result |-> TRUE]
          [] current_step = "VoiceSetup" ->
               [is_open |-> is_open, current_step |-> "Complete",
                completed_steps |-> pushed, result |-> TRUE]
          [] current_step = "Complete" ->
               [is_open |-> FALSE, current_step |-> current_step,
                completed_steps |-> pushed, result |-> FALSE]

\* a next_step that leaves the wizard open at the last step
next_step_stay_open ==
    /\ is_open' = is_open
    /\ current_step' = Wizard_next_step.current_step
    /\ completed_steps' = Wizard_next_step.completed_steps
    /\ wizard_ret' = Call("next_step", <<current_step>>, Wizard_next_step.result)
    /\ UNCHANGED wizardUnused

\* Wizard::next_step
next_step ==
    /\ is_open' = Wizard_next_step.is_open
    /\ current_step' = Wizard_next_step.current_step
    /\ completed_steps' = Wizard_next_step.completed_steps
    /\ wizard_ret' = Call("next_step", <<current_step>>, Wizard_next_step.result)
    /\ UNCHANGED wizardUnused

\* a previous_step that takes the step it leaves off the completed ones
previous_step_uncomplete ==
    /\ current_step' =
          CASE current_step = "Welcome" -> current_step
            [] current_step = "GpuConfiguration" -> "Welcome"
            [] current_step = "ThemeSelection" -> "GpuConfiguration"
            [] current_step = "VoiceSetup" -> "ThemeSelection"
            [] current_step = "Complete" -> "VoiceSetup"
    /\ completed_steps' =
          LET Kept(step) == step # current_step
          IN  SelectSeq(completed_steps, Kept)
    /\ wizard_ret' = Call("previous_step", <<current_step>>, current_step # "Welcome")
    /\ UNCHANGED is_open
    /\ UNCHANGED wizardUnused

\* Wizard::previous_step
previous_step ==
    /\ current_step' =
          CASE current_step = "Welcome" -> current_step
            [] current_step = "GpuConfiguration" -> "Welcome"
            [] current_step = "ThemeSelection" -> "GpuConfiguration"
            [] current_step = "VoiceSetup" -> "ThemeSelection"
            [] current_step = "Complete" -> "VoiceSetup"
    /\ wizard_ret' = Call("previous_step", <<current_step>>, current_step # "Welcome")
    /\ UNCHANGED <<is_open, completed_steps>>
    /\ UNCHANGED wizardUnused

\* Wizard::skip_step
skip_step ==
    /\ IF can_skip(current_step)
       THEN /\ is_open' = Wizard_next_step.is_open
            /\ current_step' = Wizard_next_step.current_step
            /\ completed_steps' = Wizard_next_step.completed_steps
            /\ wizard_ret' = Call("skip_step", <<current_step>>, Wizard_next_step.result)
       ELSE /\ wizard_ret' = Call("skip_step", <<current_step>>, FALSE)
            /\ UNCHANGED <<is_open, current_step, completed_steps>>
    /\ UNCHANGED wizardUnused

WizardNext ==
    \/ open
    \/ close
    \/ next_step
    \/ previous_step
    \/ skip_step

WizardSpec == Init /\ [][WizardNext]_vars

\* the steps in the order of the wizard
StepOrder == <<"Welcome", "GpuConfiguration", "ThemeSelection", "VoiceSetup", "Complete">>

\* a step of the wizard that is a call of `op`
WizardCall(op) == wizard_ret'.op = op /\ wizardVars' # wizardVars

\* C23: next_step before Complete returns true and moves to the step that
\* follows in the order Welcome, GpuConfiguration, ThemeSelection,
\* VoiceSetup, Complete; at Complete it returns false, stays there and
\* closes the wizard; can_go_next is false exactly at Complete and
\* can_go_previous exactly at Welcome
C23_NextStepOrder ==
    [][/\ WizardCall("next_step") =>
             IF current_step # "Complete"
             THEN /\ wizard_ret'.result = TRUE
                  /\ current_step' = StepOrder[current_step_index(current_step) + 2]
                  /\ is_open' = is_open
             ELSE /\ wizard_ret'.result = FALSE
                  /\ current_step' = "Complete"
                  /\ is_open' = FALSE
       /\ can_go_next' <=> current_step' # StepOrder[5]
       /\ can_go_previous' <=> current_step' # StepOrder[1]]_vars

\* the wizard has gone through every step and a next_step at Complete has
\* returned false and left it closed
C23_Witness ==
    /\ wizard_ret = Call("next_step", <<"Complete">>, FALSE)
    /\ current_step = "Complete"
    /\ ~is_open
    /\ completed_steps = StepOrder

\* C24: previous_step at Welcome returns false and changes nothing; at any
\* other step it returns true and moves to the step just before; called
\* right after a next_step that returned true it comes back to the step
\* that next_step left; it never changes is_open or the completed steps
C24_PreviousStep ==
    [][WizardCall("previous_step") =>
          /\ is_open' = is_open
          /\ completed_steps' = completed_steps
          /\ IF current_step = StepOrder[1]
             THEN /\ wizard_ret'.result = FALSE
                  /\ current_step' = current_step
             ELSE /\ wizard_ret'.result = TRUE
                  /\ current_step' = StepOrder[current_step_index(current_step)]
          /\ (wizard_ret.op = "next_step" /\ wizard_ret.result = TRUE) =>
                current_step' = wizard_ret.args[1]]_vars

\* previous_step has come back to ThemeSelection right after a next_step
\* made there, which had marked the step completed
C24_Witness ==
    /\ wizard_ret = Call("previous_step", <<"VoiceSetup">>, TRUE)
    /\ current_step = "ThemeSelection"
    /\ is_step_completed("ThemeSelection")
    /\ is_open

\* C25: skip_step at Welcome and at Complete returns false and leaves the
\* wizard as it was; at the three steps between it returns true and moves
\* to the step next_step would move to
C25_SkipStep ==
    [][WizardCall("skip_step") =>
          IF current_step \in {"Welcome", "Complete"}
          THEN /\ wizard_ret'.result = FALSE
               /\ <<is_open, current_step, completed_steps>>' =
                     <<is_open, current_step, completed_steps>>
          ELSE /\ current_step \in {"GpuConfiguration", "ThemeSelection", "VoiceSetup"}
               /\ wizard_ret'.result = TRUE
               /\ current_step' = StepOrder[current_step_index(current_step) + 2]
               /\ current_step' = Wizard_next_step.current_step]_vars

\* VoiceSetup has been skipped in an open wizard, which led to Complete
C25_Witness ==
    /\ wizard_ret = Call("skip_step", <<"VoiceSetup">>, TRUE)
    /\ current_step = "Complete"
    /\ is_open

(***************************************************************************)
(* Threads that call the PtyManager directly and at once.  A step is what  *)
(* a thread does between two points where another thread can come in: the *)
(* taking of the registry lock, each write to the PTY, the release.        *)
(* writeln!(session.writer, "{}", command) gives the writer the command    *)
(* and then the line terminator, in two writes.  A write to a PTY whose    *)
(* shell does not take its input waits.                                    *)
(***************************************************************************)

ptyConcUnused == <<sessions, active_session, ret, closed, onlyCreates, before,
                   channel, receivers, commanded, mutex, busVars, wizardVars>>

\* ids that calls already under way will draw: the one of a write_command
\* that has taken the lock and not yet made its block
reserved == Cardinality({t \in Threads : threads[t].pc = "w_locked"})

\* PtyManager::create_session up to the spawn of the reader thread
pc_open(t) ==
    /\ threads[t] = Idle
    /\ uuid + reserved < MaxUuid
    /\ uuid' = uuid + 1
    /\ readers' = spawn_reader(uuid + 1, None)
    /\ pipe' = openpty(uuid + 1, None)
    /\ threads' = [threads EXCEPT ![t] = [pc |-> "c_insert", session_id |-> uuid + 1]]
    /\ UNCHANGED <<pty_sessions, created, pty_lock, ptyConcUnused>>

\* pty.rs:111-112, self.sessions.lock().unwrap().insert(..) and the return
pc_insert(t) ==
    /\ threads[t].pc = "c_insert"
    /\ pty_lock = None
    /\ pty_sessions' = PtyManager_create_session(threads[t].session_id, None)
    /\ created' = Append(created, threads[t].session_id)
    /\ threads' = [threads EXCEPT ![t] = Idle]
    /\ UNCHANGED <<uuid, readers, pipe, pty_lock, ptyConcUnused>>

\* pty.rs:116, write_command takes the registry lock
pw_lock(t, session_id, command, timestamp) ==
    /\ threads[t] = Idle
    /\ pty_lock = None
    /\ uuid < MaxUuid
    /\ pty_lock' = Some(t)
    /\ threads' = [threads EXCEPT ![t] =
          [pc |-> "w_locked", session_id |-> session_id, command |-> command,
           timestamp |-> timestamp]]
    /\ UNCHANGED <<pty_sessions, uuid, created, readers, pipe, ptyConcUnused>>

\* pty.rs:118-136 and 142-144: the lookup; for a session that is there the
\* new block becomes current_command, for one that is not the call returns
\* Err and the lock is released
pw_block(t) ==
    /\ threads[t].pc = "w_locked"
    /\ LET call == threads[t]
       IN  IF call.session_id \in DOMAIN pty_sessions
           THEN /\ uuid < MaxUuid
                /\ uuid' = uuid + 1
                /\ pty_sessions' = [pty_sessions EXCEPT ![call.session_id].current_command =
                      Some(CommandBlock(uuid + 1, call.session_id, call.command,
                                        call.timestamp))]
                /\ threads' = [threads EXCEPT ![t] =
                      [pc |-> "w_command", session_id |-> call.session_id,
                       command |-> call.command, command_id |-> uuid + 1]]
                /\ UNCHANGED pty_lock
           ELSE /\ threads' = [threads EXCEPT ![t] = Idle]
                /\ pty_lock' = None
                /\ UNCHANGED <<pty_sessions, uuid>>
    /\ UNCHANGED <<created, readers, pipe, ptyConcUnused>>

\* a write_command that lets go of the registry lock before it writes
pw_command_unlocked(t) ==
    /\ threads[t].pc = "w_command"
    /\ pipe[threads[t].session_id].draining
    /\ threads[t].session_id \in DOMAIN pty_sessions
    /\ pty_sessions' = [pty_sessions EXCEPT ![threads[t].session_id].writer =
                           @ \o threads[t].command]
    /\ threads' = [threads EXCEPT ![t].pc = "w_newline"]
    /\ pty_lock' = None
    /\ UNCHANGED <<uuid, created, readers, pipe, ptyConcUnused>>

\* pty.rs:139, writeln!: the command goes to the writer
pw_command(t) ==
    /\ threads[t].pc = "w_command"
    /\ pipe[threads[t].session_id].draining
    /\ pty_sessions' = [pty_sessions EXCEPT ![threads[t].session_id].writer =
                           @ \o threads[t].command]
    /\ threads' = [threads EXCEPT ![t].pc = "w_newline"]
    /\ UNCHANGED <<uuid, created, readers, pipe, pty_lock, ptyConcUnused>>

\* pty.rs:139-141, writeln!: the line terminator goes to the writer; the
\* call returns Ok(command_id) and the lock is released
pw_newline(t) ==
    /\ threads[t].pc = "w_newline"
    /\ pipe[threads[t].session_id].draining
    /\ threads[t].session_id \in DOMAIN pty_sessions
    /\ pty_sessions' = [pty_sessions EXCEPT ![threads[t].session_id].writer =
                           Append(@, NL)]
    /\ threads' = [threads EXCEPT ![t] = Idle]
    /\ pty_lock' = None
    /\ UNCHANGED <<uuid, created, readers, pipe, ptyConcUnused>>

\* pty.rs:152, resize_session takes the registry lock
pr_lock(t, session_id, rows, cols) ==
    /\ threads[t] = Idle
    /\ pty_lock = None
    /\ pty_lock' = Some(t)
    /\ threads' = [threads EXCEPT ![t] =
          [pc |-> "r_resize", session_id |-> session_id, rows |-> rows, cols |-> cols]]
    /\ UNCHANGED <<pty_sessions, uuid, created, readers, pipe, ptyConcUnused>>

\* pty.rs:154-163: the resize of the PTY, the return and the release
pr_resize(t) ==
    /\ threads[t].pc = "r_resize"
    /\ pty_sessions' = PtyManager_resize_session(threads[t].session_id,
                                                 threads[t].rows, threads[t].cols, TRUE)
    /\ threads' = [threads EXCEPT ![t] = Idle]
    /\ pty_lock' = None
    /\ UNCHANGED <<uuid, created, readers, pipe, ptyConcUnused>>

\* PtyManager::close_session: lock, remove, release
px_close(t, session_id) ==
    /\ threads[t] = Idle
    /\ pty_lock = None
    /\ pty_sessions' = PtyManager_close_session(session_id)
    /\ UNCHANGED <<uuid, created, readers, pipe, threads, pty_lock, ptyConcUnused>>

\* the shell of a session stops or starts taking what is written to its PTY
shell_input(session_id, draining) ==
    /\ session_id \in DOMAIN pipe
    /\ pipe' = [pipe EXCEPT ![session_id].draining = draining]
    /\ UNCHANGED <<pty_sessions, uuid, created, readers, threads, pty_lock, ptyConcUnused>>

PtyConcNext ==
    \/ \E t \in Threads : pc_open(t)
    \/ \E t \in Threads : pc_insert(t)
    \/ \E t \in Threads, session_id \in DOMAIN pipe, command \in StreamCommands,
          timestamp \in Times : pw_lock(t, session_id, command, timestamp)
    \/ \E t \in Threads : pw_block(t)
    \/ \E t \in Threads : pw_command(t)
    \/ \E t \in Threads : pw_newline(t)
    \/ \E t \in Threads, session_id \in DOMAIN pipe, rows \in {30}, cols \in ColArgs :
          pr_lock(t, session_id, rows, cols)
    \/ \E t \in Threads : pr_resize(t)
    \/ \E t \in Threads, session_id \in DOMAIN pipe : px_close(t, session_id)
    \/ \E session_id \in DOMAIN pipe, draining \in BOOLEAN :
          shell_input(session_id, draining)

PtyConcSpec == Init /\ [][PtyConcNext]_vars

\* C26 as stated: no thread that is at a write to a PTY or at a resize of
\* one holds the registry lock
C26_NoLockAcrossPtyIo ==
    \A t \in Threads :
        threads[t].pc \in {"w_command", "w_newline", "r_resize"} => pty_lock # Some(t)

\* the threads that are between the first and the last write of a
\* write_command on the session
Writing(session_id) ==
    {t \in Threads : /\ threads[t].pc \in {"w_command", "w_newline"}
                     /\ threads[t].session_id = session_id}

\* bytes is a run of commands, each whole and followed by its newline
RECURSIVE WholeLines(_)
WholeLines(bytes) ==
    \/ bytes = <<>>
    \/ \E command \in StreamCommands :
          /\ Len(bytes) > Len(command)
          /\ SubSeq(bytes, 1, Len(command)) = command
          /\ bytes[Len(command) + 1] = NL
          /\ WholeLines(SubSeq(bytes, Len(command) + 2, Len(bytes)))

\* what a session's writer has been given is whole lines, followed by the
\* command of the one call that is between its two writes, if there is one
C29_NoInterleaving ==
    \A session_id \in DOMAIN pty_sessions :
        LET bytes == pty_sessions[session_id].writer
            partial == {t \in Writing(session_id) : threads[t].pc = "w_newline"}
        IN  /\ Cardinality(Writing(session_id)) <= 1
            /\ IF partial = {}
               THEN WholeLines(bytes)
               ELSE \E t \in partial :
                       /\ Len(bytes) >= Len(threads[t].command)
                       /\ WholeLines(SubSeq(bytes, 1, Len(bytes) - Len(threads[t].command)))
                       /\ SubSeq(bytes, Len(bytes) - Len(threads[t].command) + 1, Len(bytes))
                             = threads[t].command
            /\ \A t \in Writing(session_id) :
                  /\ pty_sessions[session_id].current_command # None
                  /\ pty_sessions[session_id].current_command[1].id = threads[t].command_id

C27_ReaderEndsAfterClose ==
    \A session_id \in LiveIds :
        (session_id \in DOMAIN readers /\ session_id \notin DOMAIN pty_sessions)
            ~> (session_id \in DOMAIN readers /\ readers[session_id].pc = "done")

\* C28 as stated: a reader thread that has met an Err item of the line
\* iterator holds no further TerminalOutput to publish
C28_NoOutputAfterFailure ==
    \A session_id \in DOMAIN readers :
        pipe[session_id].failed => readers[session_id].pc # "send"

\* the command blocks there are: the current_command of the PtySessions
\* and the commands of the Sessions
Blocks ==
    {pty_sessions[i].current_command[1] :
        i \in {j \in DOMAIN pty_sessions : pty_sessions[j].current_command # None}}
    \cup UNION {{sessions[i].commands[k] : k \in 1..Len(sessions[i].commands)} :
                   i \in DOMAIN sessions}

\* C30: every CommandBlock there is has status Running, no end_time, no
\* exit_code and an empty output, so end_time is None whenever the status
\* is Running
C30_BlocksStayRunning ==
    \A b \in Blocks :
        /\ b.status = "Running"
        /\ b.end_time = None
        /\ b.exit_code = None
        /\ b.output = <<>>

\* a session has a current command, and its reader thread has published a
\* line it read after the command was written
C30_Witness ==
    \E session_id \in DOMAIN pty_sessions \cap DOMAIN commanded :
        /\ pty_sessions[session_id].current_command # None
        /\ \E i \in 1..Len(channel.sent) :
              /\ channel.sent[i].session_id = session_id
              /\ channel.sent[i].content > commanded[session_id]

(***************************************************************************)
(* RaceSpec: the calls of ConcSpec that succeed, with set_active_session   *)
(* and list_sessions called by the same threads.  Each statement that      *)
(* locks a mutex is one step; list_sessions is one statement.              *)
(***************************************************************************)

\* session.rs:58, if self.sessions.lock().unwrap().contains_key(&session_id);
\* the guard is a temporary of the condition and is dropped with it; for an
\* id that is not there the call returns Err (session.rs:61-63)
t_set_active_check(t, session_id) ==
    /\ threads[t].pc = "idle"
    /\ mutex = None
    /\ threads' = [threads EXCEPT ![t] =
          IF session_id \in DOMAIN sessions
          THEN [pc |-> "set_active_assign", session_id |-> session_id]
          ELSE Idle]
    /\ UNCHANGED <<sessions, active_session, pty_sessions, uuid, created, closed, mutex>>
    /\ UNCHANGED <<busVars, wizardVars, pty_lock>>
    /\ UNCHANGED <<historyUnused, readers, streamVars>>

\* session.rs:59-60, *self.active_session.lock().unwrap() = Some(session_id);
\* Ok(())
t_set_active_assign(t) ==
    /\ threads[t].pc = "set_active_assign"
    /\ active_session' = Some(threads[t].session_id)
    /\ threads' = [threads EXCEPT ![t] = Idle]
    /\ UNCHANGED <<sessions, pty_sessions, uuid, created, closed, mutex>>
    /\ UNCHANGED <<busVars, wizardVars, pty_lock>>
    /\ UNCHANGED <<historyUnused, readers, streamVars>>

\* a list_sessions that does not wait for the registry lock
t_list_sessions_unlocked(t) ==
    /\ threads[t].pc = "idle"
    /\ ret' = Call("list_sessions", <<t>>, list_sessions)
    /\ UNCHANGED <<sessions, active_session, pty_sessions, uuid, created, closed>>
    /\ UNCHANGED <<busVars, wizardVars, pty_lock>>
    /\ UNCHANGED <<before, onlyCreates, readers, streamVars, concVars>>

\* session.rs:54, self.sessions.lock().unwrap().values().cloned().collect():
\* under the lock every TerminalSession is cloned into a Vec of the caller
t_list_sessions(t) ==
    /\ threads[t].pc = "idle"
    /\ mutex = None
    /\ ret' = Call("list_sessions", <<t>>, list_sessions)
    /\ UNCHANGED <<sessions, active_session, pty_sessions, uuid, created, closed>>
    /\ UNCHANGED <<busVars, wizardVars, pty_lock>>
    /\ UNCHANGED <<before, onlyCreates, readers, streamVars, concVars>>

\* the ids create_session draws in RaceSpec
RaceIds == {1, 2}

RaceNext ==
    \/ \E t \in Threads, name \in Names, home \in HomeEnv :
          uuid + 1 \in RaceIds /\ t_create_pty(t, name, home, None)
    \/ \E t \in Threads : t_create_insert(t)
    \/ \E t \in Threads : t_create_activate(t)
    \/ \E t \in Threads, session_id \in ConcIdArgs : t_close_pty(t, session_id)
    \/ \E t \in Threads : t_close_remove(t)
    \/ \E t \in Threads : t_close_read_active(t)
    \/ \E t \in Threads : t_close_lock_sessions(t)
    \/ \E t \in Threads : t_close_set_active(t)
    \/ \E t \in Threads, session_id \in ConcIdArgs : t_set_active_check(t, session_id)
    \/ \E t \in Threads : t_set_active_assign(t)
    \/ \E t \in Threads : t_list_sessions(t)

RaceSpec == Init /\ [][RaceNext]_vars

\* C31: list_sessions returns the sessions of the registry as they are at
\* the one instant of its step, which it takes while no thread holds the
\* registry lock and which leaves the registry as it is; what it returned
\* changes with no step of any other call
C31_ListIsSnapshot ==
    [][ret' # ret =>
          /\ ret'.op = "list_sessions"
          /\ mutex = None
          /\ ret'.result = {sessions[i] : i \in DOMAIN sessions}
          /\ sessions' = sessions]_vars

\* a returned list holds a session that a close_session has removed since,
\* while another thread is in the middle of a create_session
C31_Witness ==
    /\ ret.op = "list_sessions"
    /\ \E s \in ret.result : s.id \notin DOMAIN sessions
    /\ \E t \in Threads : threads[t].pc = "create_activate"

\* C32: execute_command leaves the logical registry and the active pointer
\* as they were and changes, of the PtyManager registry, only the
\* current_command and the PTY input of the session it names, the input by
\* adding to its end; and no step of any operation does anything to the
\* commands of a session but add to their end
C32_ExecuteFrame ==
    [][/\ ret'.op = "execute_command" =>
             LET id == ret'.args[1]
             IN  /\ sessions' = sessions
                 /\ get_active_session' = get_active_session
                 /\ Registered(pty_sessions') = Registered(pty_sessions)
                 /\ \A j \in Registered(pty_sessions) \ {id} :
                       pty_sessions'[j] = pty_sessions[j]
                 /\ id \in Registered(pty_sessions) =>
                       /\ pty_sessions'[id].id = pty_sessions[id].id
                       /\ pty_sessions'[id].pty = pty_sessions[id].pty
                       /\ IsPrefix(pty_sessions[id].writer, pty_sessions'[id].writer)
                 /\ readers' = readers
       /\ \A i \in Registered(sessions) \cap Registered(sessions') :
             IsPrefix(sessions[i].commands, sessions'[i].commands)]_vars

\* a command has been written to a session that is not the active one; it
\* is the session's current_command and is in no session's commands
C32_Witness ==
    /\ ret.op = "execute_command"
    /\ ret.result.ok
    /\ ret.args[1] \in Registered(sessions)
    /\ get_active_session # None
    /\ get_active_session # Some(ret.args[1])
    /\ pty_sessions[ret.args[1]].current_command # None
    /\ pty_sessions[ret.args[1]].current_command[1].id = ret.result.value[1]
    /\ \A i \in Registered(sessions) : sessions[i].commands = <<>>

\* C33: resize_session on a registered id leaves the logical registry, the
\* active pointer, the membership of the PtyManager registry, every other
\* PtySession and the target's current_command and PTY input as they were;
\* a resize the OS accepts leaves the geometry that its arguments name,
\* whatever it was, so that the same call on the state it leaves changes
\* nothing
C33_ResizeFrame ==
    [][(ret'.op = "resize_session" /\ ret'.args[1] \in Registered(pty_sessions)) =>
          LET id == ret'.args[1]
              geometry == [rows |-> ret'.args[2], cols |-> ret'.args[3]]
          IN  /\ sessions' = sessions
              /\ get_active_session' = get_active_session
              /\ Registered(pty_sessions') = Registered(pty_sessions)
              /\ \A j \in Registered(pty_sessions) \ {id} :
                    pty_sessions'[j] = pty_sessions[j]
              /\ pty_sessions'[id].id = pty_sessions[id].id
              /\ pty_sessions'[id].current_command = pty_sessions[id].current_command
              /\ pty_sessions'[id].writer = pty_sessions[id].writer
              /\ pty_sessions'[id].pty =
                    IF ret'.result.ok THEN geometry ELSE pty_sessions[id].pty
              /\ pty_sessions[id].pty = geometry => pty_sessions' = pty_sessions
              /\ readers' = readers]_vars

\* a session that is not the active one and has a current command has been
\* given a geometry other than the one it was opened with
C33_Witness ==
    /\ ret.op = "resize_session"
    /\ ret.result.ok
    /\ ret.args[1] \in Registered(pty_sessions)
    /\ pty_sessions[ret.args[1]].pty = [rows |-> ret.args[2], cols |-> ret.args[3]]
    /\ pty_sessions[ret.args[1]].pty # [rows |-> 24, cols |-> 80]
    /\ pty_sessions[ret.args[1]].current_command # None
    /\ get_active_session # None
    /\ get_active_session # Some(ret.args[1])

\* C34: between the calls of a sequence of SessionManager operations,
\* get_active_session() is None exactly when the registry is empty, and
\* otherwise names a session of the registry
C34_ActiveIffNonEmpty ==
    /\ get_active_session = None <=> Registered(sessions) = {}
    /\ get_active_session # None => get_active_session[1] \in Registered(sessions)

\* the active session has been closed while another was open, which is now
\* the active one
C34_Witness ==
    /\ ret.op = "close_session"
    /\ before.active = Some(ret.args[1])
    /\ Registered(sessions) # {}
    /\ get_active_session # None
    /\ get_active_session[1] \in Registered(sessions)

\* C35 as stated: when every call of every thread has returned, the active
\* pointer names no id that is absent from the registry
C35_NoDanglingActive ==
    (\A t \in Threads : threads[t] = Idle) =>
        (active_session # None => active_session[1] \in DOMAIN sessions)

(***************************************************************************)
(* The threads of PtyConcSpec under a scheduler: a thread that can take   *)
(* its next step takes it, a thread that waits for the registry lock gets *)
(* it if it is free again and again, and a write goes through if the      *)
(* shell takes input again and again.  The shell is under no obligation   *)
(* to take its input.                                                     *)
(***************************************************************************)
FairPtyConcSpec ==
    /\ Init
    /\ [][PtyConcNext]_vars
    /\ \A t \in Threads : /\ SF_vars(pc_insert(t))
                          /\ WF_vars(pw_block(t))
                          /\ SF_vars(pw_command(t))
                          /\ SF_vars(pw_newline(t))
                          /\ WF_vars(pr_resize(t))

\* C36 as stated, of a call that does no PTY I/O: a create_session that has
\* come to the insert into the registry returns
C36_CallsReturn ==
    \A t \in Threads : (threads[t].pc = "c_insert") ~> (threads[t] = Idle)

\* C37: a write_command whose write fails leaves as current_command, in
\* place of the one there was, a Running block with the command of the call
\* and an id that no call has returned or will return, the call returning
\* an error; the line of the command has not reached the PTY (what the
\* writer took of it, if anything, stops short of its end)
C37_FailedWriteLeavesBlock ==
    [][(ret'.op = "execute_command" /\ ret'.result.err = "write") =>
          LET id == ret'.args[1]
              line == ret'.args[2] \o <<NL>>
          IN  /\ id \in Registered(pty_sessions) /\ id \in Registered(pty_sessions')
              /\ pty_sessions'[id].current_command # None
              /\ pty_sessions'[id].current_command # pty_sessions[id].current_command
              /\ LET b == pty_sessions'[id].current_command[1]
                 IN  /\ b.command = ret'.args[2]
                     /\ b.session_id = id
                     /\ b.status = "Running"
                     /\ b.id > uuid /\ b.id <= uuid'
              /\ ~ret'.result.ok
              /\ ret'.result.value = None
              /\ \E n \in 0..(Len(line) - 1) :
                    pty_sessions'[id].writer =
                       pty_sessions[id].writer \o SubSeq(line, 1, n)]_vars

\* a write has failed on a session to which a command had been written
\* before: the block of the failed call is now its current_command
C37_Witness ==
    /\ ret.op = "execute_command"
    /\ ret.result.err = "write"
    /\ \E i \in DOMAIN pty_sessions[ret.args[1]].writer :
          pty_sessions[ret.args[1]].writer[i] = NL
    /\ pty_sessions[ret.args[1]].current_command # None
    /\ pty_sessions[ret.args[1]].current_command[1].id = uuid
    /\ pty_sessions[ret.args[1]].current_command[1].command = ret.args[2]

(***************************************************************************)
(* SpawnSpec: one session of the PtyManager from thread::spawn to          *)
(* close_session, with its reader thread running from the moment it is     *)
(* spawned and one receiver of the stream.                                  *)
(***************************************************************************)
SpawnNext ==
    \/ \E t \in Threads : uuid + 1 \in LiveIds /\ pc_open(t)
    \/ \E t \in Threads : pc_insert(t)
    \/ \E t \in Threads, session_id \in LiveIds : px_close(t, session_id)
    \/ \E r \in LiveSubscribers : get_output_receiver(r)
    \/ \E r \in LiveSubscribers : recv(r)
    \/ \E session_id \in LiveIds, item \in LineItems, timestamp \in Times :
          reader_read(session_id, item, timestamp)
    \/ \E session_id \in LiveIds : reader_send(session_id)

SpawnSpec == Init /\ [][SpawnNext]_vars

\* C38 as stated: a reader thread that publishes a TerminalOutput, the
\* channel storing it for its receivers, publishes one that has is_error
\* false and the id of a session that is in the PtyManager registry at that
\* moment
C38_PublishedWhileRegistered ==
    [][\A session_id \in DOMAIN readers :
          (/\ readers[session_id].pc = "send"
           /\ readers'[session_id].pc = "read"
           /\ Len(channel'.sent) > Len(channel.sent)) =>
             /\ ~readers[session_id].output[1].is_error
             /\ readers[session_id].output[1].session_id \in DOMAIN pty_sessions]_vars

\* the steps is_step_completed reports completed
Completed == {step \in WizardStep : is_step_completed(step)}

\* C39: the steps reported completed are those at which next_step has been
\* invoked since the last open, directly or through a skip_step that the
\* step permits: open leaves none completed and the wizard at Welcome, a
\* next_step and a permitted skip_step add the step that is current to
\* them, and no other call changes them; previous_step removes none; and
\* completed_steps holds no step twice
C39_CompletedTracksNextStep ==
    [][/\ wizard_ret'.op = "open" =>
             Completed' = {} /\ completed_steps' = <<>> /\ current_step' = "Welcome"
       /\ (\/ wizard_ret'.op = "next_step"
           \/ wizard_ret'.op = "skip_step" /\ can_skip(current_step)) =>
             Completed' = Completed \cup {current_step}
       /\ (\/ wizard_ret'.op \in {"close", "previous_step"}
           \/ wizard_ret'.op = "skip_step" /\ ~can_skip(current_step)) =>
             completed_steps' = completed_steps
       /\ Len(completed_steps') = Cardinality(Range(completed_steps'))]_vars

\* next_step has been invoked at Welcome a second time, the wizard having
\* gone on from GpuConfiguration and come back with previous_step: both
\* steps are completed, each once
C39_Witness ==
    /\ wizard_ret = Call("next_step", <<"Welcome">>, TRUE)
    /\ completed_steps = <<"Welcome", "GpuConfiguration">>
    /\ current_step = "GpuConfiguration"

====
